---------------------------- MODULE Spec2Model ----------------------------
(***************************************************************************)
(* A model of the HDB price assistant: the hybrid router (LLM/router.py),  *)
(* the agent orchestrator (LLM/agent.py), the two data tools and the       *)
(* floor-premium cache (LLM/tools.py), the inference arithmetic            *)
(* (ml/infer.py) and the telemetry calls (monitoring/telemetry.py).        *)
(*                                                                         *)
(* Conventions.  A Python str is a tuple of one-character strings; a text  *)
(* the program only compares whole, slices at braces or strips (a tool     *)
(* name, a literal message, the output of text generation) is a tuple of   *)
(* longer chunks.  None is the tuple None below, which no str equals.  A   *)
(* nullable column or an                                                   *)
(* optional value is <<>> (NULL) or <<v>>.  A real number is an exact      *)
(* rational [n, d] in lowest terms with d > 0.  A Python call that may     *)
(* raise is an operator whose value is [raised |-> FALSE, value |-> v] or  *)
(* [raised |-> TRUE, exc |-> type, msg |-> message].  Every handler also   *)
(* yields the sequence of external calls it made (its trace).              *)
(***************************************************************************)
EXTENDS Integers, Sequences, FiniteSets, TLC

VARIABLES
    db,      \* storage: [town |-> set of town rows, resale_transaction |-> set of rows]
    TOWNS,   \* router vocabulary, loaded once at import (LLM/router.py:16)
    FLATS,
    CONF,    \* ml.infer.CONF, the finance configuration (a module-level dict)
    central_model, \* ml.infer: Q50 or MEAN, the loaded regression model
    cache,   \* the lru_cache of _floor_premiums: sequence of [key, value],
             \* the least recently used entry first
    tel,     \* telemetry store: the number of rows of tool_calls and of predictions
    last,    \* the last call made to the program and what came of it
    ncalls   \* number of calls made so far

vars == <<db, TOWNS, FLATS, CONF, central_model, cache, tel, last, ncalls>>

(***************************************************************************)
(* Bounds of the model.                                                    *)
(***************************************************************************)
MaxCalls == 2

-----------------------------------------------------------------------------
(***************************************************************************)
(* Strings.                                                                *)
(***************************************************************************)
None == <<"<None>">>

LowerChars ==
    <<"a","b","c","d","e","f","g","h","i","j","k","l","m",
      "n","o","p","q","r","s","t","u","v","w","x","y","z">>
UpperChars ==
    <<"A","B","C","D","E","F","G","H","I","J","K","L","M",
      "N","O","P","Q","R","S","T","U","V","W","X","Y","Z">>
DigitChars == <<"0","1","2","3","4","5","6","7","8","9">>

IsLower(c) == \E i \in 1..26 : LowerChars[i] = c
IsUpperCh(c) == \E i \in 1..26 : UpperChars[i] = c
IsDigit(c) == \E i \in 1..10 : DigitChars[i] = c
DigitVal(c) == (CHOOSE i \in 1..10 : DigitChars[i] = c) - 1

UpperChar(c) ==
    IF IsLower(c) THEN UpperChars[CHOOSE i \in 1..26 : LowerChars[i] = c] ELSE c

\* str.upper()
Upper(s) == [i \in 1..Len(s) |-> UpperChar(s[i])]

IsStr(v) == v # None

\* the characters of the model in code-point order
CharOrder ==
    <<" ", "!", "'", "-", "/">> \o DigitChars \o <<"?">> \o UpperChars
        \o LowerChars \o <<"{", "}">>
Ord(c) == CHOOSE i \in 1..Len(CharOrder) : CharOrder[i] = c

\* a < b for two str
RECURSIVE StrLt(_, _)
StrLt(a, b) ==
    IF b = <<>> THEN FALSE
    ELSE IF a = <<>> THEN TRUE
    ELSE IF a[1] # b[1] THEN Ord(a[1]) < Ord(b[1])
    ELSE StrLt(Tail(a), Tail(b))

AMK    == <<"A","N","G"," ","M","O"," ","K","I","O">>
BISHAN == <<"B","I","S","H","A","N">>
R3     == <<"3"," ","R","O","O","M">>
R4     == <<"4"," ","R","O","O","M">>
IMPROVED == <<"I","M","P","R","O","V","E","D">>
NEWGEN == <<"N","E","W"," ","G","E","N","E","R","A","T","I","O","N">>

-----------------------------------------------------------------------------
(***************************************************************************)
(* Exact rationals, standing for the floats of the program.                *)
(***************************************************************************)
RECURSIVE Gcd(_, _)
Gcd(a, b) == IF b = 0 THEN a ELSE Gcd(b, a % b)

Abs(x) == IF x < 0 THEN -x ELSE x

Rat(n, d) ==
    LET s == IF d < 0 THEN -1 ELSE 1
        g == Gcd(Abs(n), Abs(d))
    IN  [n |-> (s * n) \div g, d |-> (s * d) \div g]

RatInt(i) == [n |-> i, d |-> 1]
\* products are reduced crosswise first, to keep the integers small
RatMul(a, b) ==
    LET g1 == Gcd(Abs(a.n), b.d)
        g2 == Gcd(Abs(b.n), a.d)
    IN  Rat((a.n \div g1) * (b.n \div g2), (a.d \div g2) * (b.d \div g1))
RatDiv(a, b) == RatMul(a, Rat(b.d, b.n))
RatSub(a, b) == Rat(a.n * b.d - b.n * a.d, a.d * b.d)
RatLe(a, b) == a.n * b.d <= b.n * a.d
RatLt(a, b) == a.n * b.d < b.n * a.d
RatIsZero(a) == a.n = 0
RatPos(a) == a.n > 0

\* int(x) of a float: truncation toward zero
RatTrunc(a) == IF a.n >= 0 THEN a.n \div a.d ELSE -((-a.n) \div a.d)

\* Python results
Ret(v) == [raised |-> FALSE, value |-> v]
Raise(e, m) == [raised |-> TRUE, exc |-> e, msg |-> m]

-----------------------------------------------------------------------------
(***************************************************************************)
(* Storage.  Months are counted in months: Ym(2025, 8) is 2025-08.         *)
(***************************************************************************)
Ym(y, m) == y * 12 + (m - 1)

NULL == <<>>
Val(x) == x[1]

TownTable == {[id |-> 1, name |-> AMK], [id |-> 2, name |-> BISHAN]}

Txn(i, m, t, ft, fm, lo, hi, area, lcy, rem, price) ==
    [id |-> i, month |-> m, town_id |-> t, flat_type |-> ft, flat_model |-> fm,
     storey_low |-> lo, storey_high |-> hi, floor_area_sqm |-> area,
     lease_commence_year |-> lcy, remaining_lease_months |-> rem,
     resale_price |-> price]

\* pandas Series.median() of a column, given as the set P of <<row id, value>>:
\* the middle value of the sorted values, or the mean of the two middle values.
\* Kth is the k-th smallest value.
Kth(P, k) ==
    CHOOSE v \in {p[2] : p \in P} :
        /\ Cardinality({p \in P : p[2] < v}) < k
        /\ k <= Cardinality({p \in P : p[2] <= v})

Median(P) ==
    LET n == Cardinality(P)
    IN  IF n % 2 = 1
        THEN Rat(Kth(P, (n + 1) \div 2), 1)
        ELSE Rat(Kth(P, n \div 2) + Kth(P, n \div 2 + 1), 2)

RECURSIVE SumPrice(_)
SumPrice(S) ==
    IF S = {} THEN 0
    ELSE LET r == CHOOSE x \in S : TRUE IN Val(r.resale_price) + SumPrice(S \ {r})

\* pandas Series.mean()
MeanPrice(S) == Rat(SumPrice(S), Cardinality(S))

-----------------------------------------------------------------------------
(***************************************************************************)
(* LLM/tools.py: the floor premiums of a segment.                          *)
(***************************************************************************)
Ev(e) == [ev |-> e]

\* SELECT ... FROM resale_transaction r JOIN town t ON t.id = r.town_id
\* WHERE t.name = ? AND r.flat_type = ?, with params [town.upper(), flat_type.upper()]
SegmentRows(d, town, flat_type) ==
    {r \in d.resale_transaction :
        /\ \E t \in d.town : t.id = r.town_id /\ t.name = Upper(town)
        /\ r.flat_type = Upper(flat_type)}

\* _band of the storey midpoint (storey_low + storey_high) / 2.0
_band(r) ==
    IF r.storey_low + r.storey_high <= 2 * 3 THEN "low"
    ELSE IF r.storey_low + r.storey_high >= 2 * 10 THEN "high"
    ELSE "mid"

ClipLo == Rat(95, 100)
ClipHi == Rat(110, 100)
One == RatInt(1)

\* mutant: the upper clamp is forgotten
Clip_NoUpper(x) == IF RatLt(x, ClipLo) THEN ClipLo ELSE x

\* np.clip(x, 0.95, 1.10)
Clip(x) == IF RatLt(x, ClipLo) THEN ClipLo ELSE IF RatLt(ClipHi, x) THEN ClipHi ELSE x

WindowMonths == 24

\* mutant: the rows are not restricted to the window
PremiumsOf_AllRows(rows) ==
    IF rows = {} THEN [low |-> One, mid |-> One, high |-> One]
    ELSE
      LET prices(S) == {<<r.id, Val(r.resale_price)>> : r \in S}
          med    == Median(prices(rows))
          ov0    == IF RatIsZero(med) THEN MeanPrice(rows) ELSE med
          overall == IF RatLe(ov0, RatInt(0)) THEN One ELSE ov0
          ratio(b) ==
              LET g == {r \in rows : _band(r) = b}
              IN  IF g = {} THEN One ELSE RatDiv(Median(prices(g)), overall)
      IN  [low |-> Clip(ratio("low")), mid |-> Clip(ratio("mid")),
           high |-> Clip(ratio("high"))]

\* the body of _floor_premiums from the fetched frame on (lines 88-114)
PremiumsOf(rows) ==
    IF rows = {} THEN [low |-> One, mid |-> One, high |-> One]
    ELSE
      LET maxm   == CHOOSE m \in {r.month : r \in rows} : \A r \in rows : r.month <= m
          cutoff == maxm - WindowMonths
          df     == {r \in rows : r.month >= cutoff}
          prices(S) == {<<r.id, Val(r.resale_price)>> : r \in S}
          med    == Median(prices(df))
          ov0    == IF RatIsZero(med) THEN MeanPrice(df) ELSE med
          overall == IF RatLe(ov0, RatInt(0)) THEN One ELSE ov0
          ratio(b) ==
              LET g == {r \in df : _band(r) = b}
              IN  IF g = {} THEN One ELSE RatDiv(Median(prices(g)), overall)
      IN  [low |-> Clip(ratio("low")), mid |-> Clip(ratio("mid")),
           high |-> Clip(ratio("high"))]

\* the undecorated _floor_premiums: connect, query, close, compute.
\* storage_ok = FALSE: the query of lines 75-85 fails on the open connection
\* (sqlite3 error), and con.close() of line 86 is not reached.
FloorPremiumsBody(d, town, flat_type, storage_ok) ==
    IF ~storage_ok THEN
        [res |-> Raise("OperationalError", "storage"), trace |-> <<Ev("connect")>>]
    ELSE IF ~IsStr(town) \/ ~IsStr(flat_type) THEN
        [res |-> Raise("AttributeError", "upper"), trace |-> <<Ev("connect")>>]
    ELSE
        LET rows == {r \in SegmentRows(d, town, flat_type) : r.resale_price # NULL}
        IN  [res |-> Ret(PremiumsOf(rows)),
             trace |-> <<Ev("connect"), Ev("query_premiums"), Ev("close")>>]

\* @lru_cache(maxsize=1024)
maxsize == 1024

CacheKey(town, flat_type) == <<town, flat_type>>
CacheHas(c, k) == \E i \in DOMAIN c : c[i].key = k
CacheGet(c, k) == c[CHOOSE i \in DOMAIN c : c[i].key = k].value

\* a hit makes the entry the most recently used one
CacheTouch(c, k) ==
    SelectSeq(c, LAMBDA e : e.key # k) \o <<[key |-> k, value |-> CacheGet(c, k)]>>

\* a new entry is stored as the most recently used one; when the cache is
\* full the least recently used entry is dropped
CachePut(c, k, v) ==
    IF Len(c) >= maxsize
    THEN Append(Tail(c), [key |-> k, value |-> v])
    ELSE Append(c, [key |-> k, value |-> v])

\* @lru_cache(maxsize=1024) around the body: a stored result is returned
\* without running the body; a raised exception stores nothing.
_floor_premiums(c, d, town, flat_type, storage_ok) ==
    LET k == CacheKey(town, flat_type)
    IN  IF CacheHas(c, k)
        THEN [res |-> Ret(CacheGet(c, k)), trace |-> <<>>, cache |-> CacheTouch(c, k)]
        ELSE LET b == FloorPremiumsBody(d, town, flat_type, storage_ok)
             IN  [res |-> b.res, trace |-> b.trace,
                  cache |-> IF b.res.raised THEN c
                            ELSE CachePut(c, k, b.res.value)]

-----------------------------------------------------------------------------
(***************************************************************************)
(* ml/infer.py: the finance configuration and the affordability arithmetic.*)
(* (1 + r) ** n is computed in fixed point with PowScale units per 1.      *)
(***************************************************************************)
DefaultCONF ==
    [discount |-> Rat(20, 100), ltv |-> Rat(80, 100), interest_pa |-> Rat(26, 1000),
     tenure_years |-> 25, msr |-> Rat(30, 100)]

PowScale == 10000

FixMul(a, b) == (a * b) \div PowScale

RECURSIVE FixPow(_, _)
FixPow(x, n) ==
    IF n = 0 THEN PowScale
    ELSE IF n % 2 = 0 THEN FixPow(FixMul(x, x), n \div 2)
    ELSE FixMul(x, FixPow(x, n - 1))

ZeroDivision == Raise("ZeroDivisionError", <<"division by zero">>)

\* lines 23-25, with r and n computed
PaymentWithPower(principal, r, pw) ==
    IF RatIsZero(RatSub(pw, One)) THEN ZeroDivision
    ELSE Ret(RatDiv(RatMul(principal, RatMul(r, pw)), RatSub(pw, One)))

PaymentAtRate(principal, r, n) ==
    IF RatIsZero(r)
    THEN IF n = 0 THEN ZeroDivision ELSE Ret(RatDiv(principal, RatInt(n)))
    ELSE PaymentWithPower(principal, r,
             Rat(FixPow(PowScale + (r.n * PowScale) \div r.d, n), PowScale))

monthly_payment(principal, annual_rate, years) ==
    PaymentAtRate(principal, RatDiv(annual_rate, RatInt(12)), years * 12)

\* line 30: pay / conf["msr"]
IncomeOf(pay, conf) ==
    IF pay.raised THEN pay
    ELSE IF RatIsZero(conf.msr) THEN ZeroDivision
    ELSE Ret(RatDiv(pay.value, conf.msr))

required_income(price, conf) ==
    IncomeOf(monthly_payment(RatMul(price, conf.ltv), conf.interest_pa,
                             conf.tenure_years), conf)

\* The regression model is a black box from a feature record to a price.
\* "area": 5 per square metre (the stub of tests/conftest.py:93-95, in
\* thousands); "storey": storey_low - 4, which is negative, zero and positive
\* for the low, mid and high ranges.
Models == {"missing", "area", "storey"}

ModelPredict(m, rec) ==
    IF m = "area" THEN RatMul(rec.floor_area_sqm, RatInt(5))
    ELSE RatInt(rec.storey_low - 4)

\* lines 97-104: the output row of one record
PredictRow(resale, bto, income) ==
    IF income.raised THEN income
    ELSE Ret([resale_pred |-> resale, bto_proxy |-> bto,
              required_income |-> income.value])

PredictBto(resale, bto, conf) == PredictRow(resale, bto, required_income(bto, conf))

PredictRecord_DiscountAsFactor(m, conf, rec) ==
    PredictBto(ModelPredict(m, rec), RatMul(ModelPredict(m, rec), conf.discount), conf)

PredictRecord(m, conf, rec) ==
    PredictBto(ModelPredict(m, rec),
               RatMul(ModelPredict(m, rec), RatSub(One, conf.discount)), conf)

PredictCons(row, rest) ==
    IF row.raised THEN row
    ELSE IF rest.raised THEN rest
    ELSE Ret(<<row.value>> \o rest.value)

\* predict(records): one output row per record, in order
RECURSIVE PredictRows(_, _, _)
PredictRows(m, conf, recs) ==
    IF recs = <<>> THEN Ret(<<>>)
    ELSE PredictCons(PredictRecord(m, conf, Head(recs)),
                     PredictRows(m, conf, Tail(recs)))

\* lines 72-74: a single mapping stands for the list holding it.  records is
\* [t |-> "dict", v |-> record] or [t |-> "list", v |-> sequence of records]
RecordList(records) == IF records.t = "dict" THEN <<records.v>> ELSE records.v

\* line 90: the model is given a frame of at least one row; a frame built
\* from an empty list has no columns and the model's predict fails on it
PredictFrame(m, conf, recs) ==
    IF recs = <<>> THEN Raise("KeyError", <<"floor_area_sqm">>)
    ELSE PredictRows(m, conf, recs)

predict(m, conf, records) ==
    IF m = "missing"
    THEN Raise("RuntimeError", <<"No model found and auto-training failed. Please run:  python -m ml.train  (from project root)">>)
    ELSE PredictFrame(m, conf, RecordList(records))

-----------------------------------------------------------------------------
(***************************************************************************)
(* LLM/tools.py: t_price_estimates.                                        *)
(***************************************************************************)
Digit(i) == DigitChars[i + 1]

\* a month as "YYYY-MM"
MonthStr(m) ==
    LET y  == m \div 12
        mm == (m % 12) + 1
    IN  <<Digit(y \div 1000), Digit((y \div 100) % 10), Digit((y \div 10) % 10),
          Digit(y % 10), "-", Digit(mm \div 10), Digit(mm % 10)>>

_latest_month(d, today) ==
    IF d.resale_transaction = {} THEN MonthStr(today)
    ELSE MonthStr(CHOOSE m \in {r.month : r \in d.resale_transaction} :
                      \A r \in d.resale_transaction : r.month <= m)

\* df["flat_model"].dropna().mode().iloc[0], or "IMPROVED": the most frequent
\* value, the smallest of them when several are
ModeModel(df) ==
    LET rows == {r \in df : r.flat_model # NULL}
        n(v) == Cardinality({r \in rows : Val(r.flat_model) = v})
        top  == {v \in {Val(r.flat_model) : r \in rows} :
                    \A w \in {Val(r.flat_model) : r \in rows} : n(w) <= n(v)}
    IN  IF rows = {} THEN IMPROVED
        ELSE CHOOSE v \in top : \A w \in top : w = v \/ StrLt(v, w)

\* med.get(column, default) of df.median(numeric_only=True): a column whose
\* values are all NULL is not numeric and is absent from the medians
MedGet(P, default) == IF P = {} THEN RatInt(default) ELSE Median(P)

_typical_features(d, town, flat_type) ==
    IF ~IsStr(town) \/ ~IsStr(flat_type)
    THEN Raise("AttributeError", <<"'NoneType' object has no attribute 'upper'">>)
    ELSE
      LET df == SegmentRows(d, town, flat_type)
      IN  IF df = {} THEN Raise("ValueError", <<"No data for", town, flat_type>>)
          ELSE Ret([floor_area_sqm |->
                        MedGet({<<r.id, r.floor_area_sqm>> : r \in df}, 90),
                    lease_commence_year |->
                        MedGet({<<r.id, Val(r.lease_commence_year)>> :
                                 r \in {x \in df : x.lease_commence_year # NULL}}, 1990),
                    remaining_lease_months |->
                        MedGet({<<r.id, Val(r.remaining_lease_months)>> :
                                 r \in {x \in df : x.remaining_lease_months # NULL}}, 300),
                    mode_model |-> ModeModel(df)])

_BAND_MAP_OtherLow(b) ==
    CASE b = "low"  -> <<1, 3>>
      [] b = "mid"  -> <<4, 6>>
      [] b = "high" -> <<10, 12>>
      [] OTHER      -> <<1, 3>>

_BAND_MAP(b) ==
    CASE b = "low"  -> <<1, 3>>
      [] b = "mid"  -> <<4, 6>>
      [] b = "high" -> <<10, 12>>
      [] OTHER      -> <<4, 6>>

\* bands as passed by the caller: a sequence of band names, or a value that
\* cannot be iterated (None, a number)
Bands(items) == [iter |-> TRUE, items |-> items]
NotIterable == [iter |-> FALSE, items |-> <<>>]
DefaultBands == Bands(<<"low", "mid", "high">>)

\* one telemetry attempt: the att-th log_* call of this tool call raises iff
\* att is in telfail
LogOk(att, telfail) == att \notin telfail

\* try: log_tool(...) / except Exception: pass -- the write may fail, the
\* tool's result is what it was
AfterLogTool_Propagate(res, logok) ==
    IF logok THEN res ELSE Raise("OperationalError", <<"telemetry store failed">>)

AfterLogTool(res, logok) == res

\* premiums.get(b, 1.0) read as an increment over the base price
PremiumGet_Delta(premiums, b) ==
    IF b \in {"low", "mid", "high"} THEN RatSub(premiums[b], One) ELSE RatSub(One, One)

\* premiums.get(b, 1.0)
PremiumGet(premiums, b) == IF b \in {"low", "mid", "high"} THEN premiums[b] ELSE One

\* The loop over bands (lines 153-186).  x holds what the loop reads; acc
\* what it has built: rows, trace, att (telemetry attempts made), npred
\* (prediction rows written) and res (a raised exception, if any).

\* lines 155-166: the feature record of band b
BandRecord(x, b) ==
    [month |-> x.month, town |-> Upper(x.town),
     flat_type |-> Upper(x.flat_type),
     flat_model |-> Upper(x.med.mode_model),
     storey_low |-> _BAND_MAP(b)[1], storey_high |-> _BAND_MAP(b)[2],
     floor_area_sqm |-> x.med.floor_area_sqm,
     lease_commence_year |-> RatTrunc(x.med.lease_commence_year),
     remaining_lease_months |-> RatTrunc(x.med.remaining_lease_months)]

PredictEv(rec, raised) == [ev |-> "predict", rec |-> rec, raised |-> raised]

\* lines 173-185: append the row, then one log_prediction attempt
PriceRowLogged(acc, rec, row, ok) ==
    [rows  |-> Append(acc.rows, row),
     trace |-> acc.trace \o <<PredictEv(rec, FALSE),
                              [ev |-> "log_prediction", band |-> row.band, ok |-> ok]>>,
     att   |-> acc.att + 1,
     npred |-> acc.npred + (IF ok THEN 1 ELSE 0),
     res   |-> acc.res]

\* lines 169-171
PriceRowIncome(x, b, acc, rec, adj_resale, adj_bto, adj_income) ==
    IF adj_income.raised
    THEN [acc EXCEPT !.res = adj_income, !.trace = Append(@, PredictEv(rec, FALSE))]
    ELSE PriceRowLogged(acc, rec,
             [band |-> b, resale_pred |-> adj_resale, bto_proxy |-> adj_bto,
              required_income |-> adj_income.value,
              floor_premium_applied |-> PremiumGet(x.premiums, b)],
             LogOk(acc.att + 1, x.telfail))

PriceRowBto(x, b, acc, rec, adj_resale, adj_bto) ==
    PriceRowIncome(x, b, acc, rec, adj_resale, adj_bto, required_income(adj_bto, x.conf))

PriceRowAdjusted(x, b, acc, rec, adj_resale) ==
    PriceRowBto(x, b, acc, rec, adj_resale,
                RatMul(adj_resale, RatSub(One, x.conf.discount)))

\* lines 167-169: base = price_predict(rec)[0]
PriceRowPredicted(x, b, acc, rec, pr) ==
    IF pr.raised
    THEN [acc EXCEPT !.res = pr, !.trace = Append(@, PredictEv(rec, TRUE))]
    ELSE PriceRowAdjusted(x, b, acc, rec,
             RatMul(pr.value[1].resale_pred, PremiumGet(x.premiums, b)))

PriceRowOf(x, b, acc, rec) ==
    PriceRowPredicted(x, b, acc, rec, predict(x.model, x.conf, [t |-> "dict", v |-> rec]))

PriceRow(x, b, acc) == PriceRowOf(x, b, acc, BandRecord(x, b))

RECURSIVE PriceRows(_, _, _)
PriceRows(x, i, acc) ==
    IF i > Len(x.bands) \/ acc.res.raised THEN acc
    ELSE PriceRows(x, i + 1, PriceRow(x, x.bands[i], acc))

\* The try block of t_price_estimates (lines 145-196).  a: the arguments;
\* env: what the outside does during the call: storage ("ok", "fail1": the
\* tool's own connection fails, "fail2": the query of _floor_premiums
\* fails), telfail, today.
PriceFail(c, r, t) == [res |-> r, trace |-> t, cache |-> c, att |-> 0, npred |-> 0]

\* lines 188-196
PriceOut(a, conf, month, fp, loop) ==
    IF loop.res.raised
    THEN [res |-> loop.res, trace |-> loop.trace, cache |-> fp.cache,
          att |-> loop.att, npred |-> loop.npred]
    ELSE [res |-> Ret([tool |-> "price_estimates", month |-> month,
                       town |-> a.town, flat_type |-> a.flat_type,
                       rows |-> loop.rows, finance |-> conf,
                       premiums |-> fp.res.value]),
          trace |-> loop.trace, cache |-> fp.cache,
          att |-> loop.att, npred |-> loop.npred]

\* lines 151-186, with the premiums fp in hand
PriceAfterPremiums(model, conf, a, env, month, tf, t2, fp) ==
    IF fp.res.raised
    THEN PriceFail(fp.cache, fp.res, t2 \o fp.trace)
    ELSE PriceOut(a, conf, month, fp,
             PriceRows([bands |-> a.bands.items, month |-> month, town |-> a.town,
                        flat_type |-> a.flat_type, med |-> tf.value,
                        premiums |-> fp.res.value, model |-> model, conf |-> conf,
                        telfail |-> env.telfail], 1,
                       [rows |-> <<>>, trace |-> t2 \o fp.trace, att |-> 0,
                        npred |-> 0, res |-> Ret(<<>>)]))

\* lines 148-151, with the typical features tf in hand; when
\* _typical_features raises, con.close() of line 149 is not reached
PriceAfterFeatures(c, d, model, conf, a, env, month, t1, tf) ==
    IF tf.raised
    THEN PriceFail(c, tf, t1 \o (IF tf.exc = "ValueError"
                                 THEN <<Ev("query_typical_features")>> ELSE <<>>))
    ELSE PriceAfterPremiums(model, conf, a, env, month, tf,
             t1 \o <<Ev("query_typical_features"), Ev("close")>>,
             _floor_premiums(c, d, a.town, a.flat_type, env.storage # "fail2"))

PriceBody(c, d, model, conf, a, env) ==
    LET falsy == a.month = None \/ a.month = <<>>
    IN  IF env.storage = "fail1"
        THEN PriceFail(c, Raise("OperationalError", <<"unable to open database file">>),
                       <<>>)
        ELSE PriceAfterFeatures(c, d, model, conf, a, env,
                 IF falsy THEN _latest_month(d, env.today) ELSE a.month,
                 <<Ev("connect")>> \o
                     (IF falsy THEN <<Ev("query_latest_month")>> ELSE <<>>),
                 _typical_features(d, a.town, a.flat_type))

\* lines 197-210: one log_tool attempt on either path; an exception of the
\* try block becomes the payload {tool, error: str(e)}
PriceLogged(body, logok) ==
    [res   |-> AfterLogTool(
                  IF body.res.raised
                  THEN Ret([tool |-> "price_estimates", error |-> body.res.msg])
                  ELSE body.res, logok),
     trace |-> Append(body.trace,
                  [ev |-> "log_tool", tool |-> "price_estimates",
                   success |-> ~body.res.raised, ok |-> logok]),
     cache |-> body.cache,
     npred |-> body.npred,
     ntool |-> IF logok THEN 1 ELSE 0]

PriceLog(body, env) == PriceLogged(body, LogOk(body.att + 1, env.telfail))

\* t_price_estimates(town, flat_type, month, bands): list(bands) of line 143,
\* then the try block and its telemetry
t_price_estimates(c, d, model, conf, a, env) ==
    IF ~a.bands.iter
    THEN [res |-> Raise("TypeError", <<"object is not iterable">>), trace |-> <<>>,
          cache |-> c, npred |-> 0, ntool |-> 0]
    ELSE PriceLog(PriceBody(c, d, model, conf, a, env), env)

-----------------------------------------------------------------------------
(***************************************************************************)
(* LLM/tools.py: t_low_supply.                                             *)
(***************************************************************************)
\* SELECT t.name AS town, r.flat_type, COUNT(*) AS n ... WHERE r.month >= ?
\* GROUP BY t.name, r.flat_type
GroupCounts(d, cutoff) ==
    LET rows == {r \in d.resale_transaction :
                    r.month >= cutoff /\ \E t \in d.town : t.id = r.town_id}
        name(r) == (CHOOSE t \in d.town : t.id = r.town_id).name
    IN  {[town |-> name(r), flat_type |-> r.flat_type,
          n |-> Cardinality({q \in rows : name(q) = name(r)
                                          /\ q.flat_type = r.flat_type})] : r \in rows}

GroupBefore_Descending(g, h) ==
    \/ g.n > h.n
    \/ g.n = h.n /\ StrLt(g.town, h.town)
    \/ g.n = h.n /\ g.town = h.town /\ StrLt(g.flat_type, h.flat_type)

\* the order of the groups: ascending n; groups of equal n in the order of
\* their keys (town, flat_type)
GroupBefore(g, h) ==
    \/ g.n < h.n
    \/ g.n = h.n /\ StrLt(g.town, h.town)
    \/ g.n = h.n /\ g.town = h.town /\ StrLt(g.flat_type, h.flat_type)

RECURSIVE SortGroups(_)
SortGroups(G) ==
    IF G = {} THEN <<>>
    ELSE LET g == CHOOSE x \in G : \A y \in G \ {x} : GroupBefore(x, y)
         IN  <<g>> \o SortGroups(G \ {g})

\* DataFrame.head(k): the first k rows; all but the last -k rows when k < 0
Head_(s, k) ==
    LET m == IF k >= 0 THEN k ELSE Len(s) + k
    IN  SubSeq(s, 1, IF m < 0 THEN 0 ELSE IF m > Len(s) THEN Len(s) ELSE m)

\* the flat-type filter applied to the rows that head(top_k) kept
LowSupplyBody_FilterLast(d, a, env) ==
    LET cutoff == env.today - 12 * Val(a.last_n_years)
        filter == a.flat_type # None /\ a.flat_type # <<>>
        t1     == <<Ev("connect"), Ev("query_counts"), Ev("close")>>
    IN  IF a.last_n_years = NULL
        THEN [res |-> Raise("TypeError", <<"unsupported operand type(s)">>), trace |-> <<>>]
        ELSE IF env.storage = "fail1"
        THEN [res |-> Raise("OperationalError", <<"unable to open database file">>),
              trace |-> <<>>]
        ELSE IF a.top_k = NULL
        THEN [res |-> Raise("TypeError", <<"int() argument must be a string or a number">>),
              trace |-> t1]
        ELSE [res |-> Ret([tool |-> "low_supply",
                           cutoff |-> MonthStr(cutoff) \o <<"-", "0", "1">>,
                           flat_type |-> a.flat_type,
                           items |-> SelectSeq(
                               Head_(SortGroups(GroupCounts(d, cutoff)), Val(a.top_k)),
                               LAMBDA g : filter => Upper(g.flat_type) = Upper(a.flat_type))]),
              trace |-> t1]

\* the try block of t_low_supply (lines 231-254)
LowSupplyBody(d, a, env) ==
    LET cutoff == env.today - 12 * Val(a.last_n_years)
        filter == a.flat_type # None /\ a.flat_type # <<>>
        groups == GroupCounts(d, cutoff)
        kept   == IF filter
                  THEN {g \in groups : Upper(g.flat_type) = Upper(a.flat_type)}
                  ELSE groups
        t1     == <<Ev("connect"), Ev("query_counts"), Ev("close")>>
    IN  IF a.last_n_years = NULL
        THEN [res |-> Raise("TypeError", <<"unsupported operand type(s)">>), trace |-> <<>>]
        ELSE IF env.storage = "fail1"
        THEN [res |-> Raise("OperationalError", <<"unable to open database file">>),
              trace |-> <<>>]
        ELSE IF a.top_k = NULL
        THEN [res |-> Raise("TypeError", <<"int() argument must be a string or a number">>),
              trace |-> t1]
        ELSE [res |-> Ret([tool |-> "low_supply",
                           cutoff |-> MonthStr(cutoff) \o <<"-", "0", "1">>,
                           flat_type |-> a.flat_type,
                           items |-> Head_(SortGroups(kept), Val(a.top_k))]),
              trace |-> t1]

LowLogged_Reraise(body, logok) ==
    [res   |-> body.res,
     trace |-> Append(body.trace,
                  [ev |-> "log_tool", tool |-> "low_supply",
                   success |-> ~body.res.raised, ok |-> logok]),
     npred |-> 0,
     ntool |-> IF logok THEN 1 ELSE 0]

\* lines 255-268: one log_tool attempt on either path
LowLogged(body, logok) ==
    [res   |-> AfterLogTool(
                  IF body.res.raised
                  THEN Ret([tool |-> "low_supply", error |-> body.res.msg])
                  ELSE body.res, logok),
     trace |-> Append(body.trace,
                  [ev |-> "log_tool", tool |-> "low_supply",
                   success |-> ~body.res.raised, ok |-> logok]),
     npred |-> 0,
     ntool |-> IF logok THEN 1 ELSE 0]

\* t_low_supply(last_n_years, flat_type, top_k)
t_low_supply(d, a, env) ==
    LowLogged(LowSupplyBody(d, a, env), LogOk(1, env.telfail))

-----------------------------------------------------------------------------
(***************************************************************************)
(* The transactions storage may hold.  Prices are in thousands.            *)
(***************************************************************************)
amk_lc == <<"a","n","g"," ","m","o"," ","k","i","o">>

TxnPool ==
    { Txn(1, Ym(2025, 7), 1, R4, <<IMPROVED>>,  2,  3, 90, <<1982>>, <<420>>, <<470>>),
      Txn(2, Ym(2025, 8), 1, R4, <<IMPROVED>>,  5,  6, 90, <<1982>>, <<408>>, <<480>>),
      Txn(3, Ym(2025, 8), 1, R4, <<IMPROVED>>, 11, 12, 91, <<1983>>, NULL,    <<500>>),
      Txn(4, Ym(2023, 8), 1, R4, <<NEWGEN>>,    1,  3, 90, <<1982>>, <<432>>, <<300>>),
      Txn(5, Ym(2023, 7), 1, R4, NULL,         10, 12, 90, NULL,     <<433>>, <<900>>),
      Txn(6, Ym(2025, 8), 1, R4, NULL,          4,  6, 90, NULL,     NULL,    NULL),
      Txn(7, Ym(2025, 6), 1, R4, <<IMPROVED>>,  7,  9, 90, <<1982>>, <<421>>, <<0>>),
      Txn(8, Ym(2025, 8), 2, R4, <<IMPROVED>>,  4,  6, 95, <<1987>>, <<360>>, <<650>>),
      Txn(9, Ym(2025, 8), 1, R4, <<IMPROVED>>,  1,  2, 90, <<1982>>, <<408>>, <<-100>>) }

MaxRows == 3

Storages ==
    {[town |-> TownTable, resale_transaction |-> S] :
        S \in {T \in SUBSET TxnPool : Cardinality(T) <= MaxRows}}

NoCall == [op |-> "none"]
EmptyTel == [tool_calls |-> 0, predictions |-> 0]

-----------------------------------------------------------------------------
(***************************************************************************)
(* The floor premiums on their own: any storage, calls of _floor_premiums  *)
(* and of its cache_clear (tests/conftest.py:71).                          *)
(***************************************************************************)
PremTowns == {AMK, amk_lc, BISHAN, None}
PremFlats == {R4}

InitPremiums ==
    /\ db \in Storages
    /\ TOWNS = <<>>
    /\ FLATS = <<>>
    /\ CONF = DefaultCONF
    /\ central_model = "missing"
    /\ cache = <<>>
    /\ tel = EmptyTel
    /\ last = NoCall
    /\ ncalls = 0

CallFloorPremiums ==
    \E town \in PremTowns, flat_type \in PremFlats, storage_ok \in BOOLEAN :
        LET r == _floor_premiums(cache, db, town, flat_type, storage_ok)
        IN  /\ ncalls < MaxCalls
            /\ ncalls' = ncalls + 1
            /\ cache' = r.cache
            /\ last' = [op |-> "_floor_premiums", town |-> town, flat_type |-> flat_type,
                        hit |-> CacheHas(cache, CacheKey(town, flat_type)),
                        res |-> r.res, trace |-> r.trace]
            /\ UNCHANGED <<db, TOWNS, FLATS, CONF, central_model, tel>>

CacheClear ==
    /\ cache' = <<>>
    /\ last' = [op |-> "cache_clear"]
    /\ UNCHANGED <<db, TOWNS, FLATS, CONF, central_model, tel, ncalls>>

NextPremiums == CallFloorPremiums \/ CacheClear

SpecPremiums == InitPremiums /\ [][NextPremiums]_vars

\* the priced transactions of the called segment, and those in its window
C10_Segment ==
    {r \in db.resale_transaction :
        /\ r.resale_price # NULL
        /\ r.flat_type = Upper(last.flat_type)
        /\ \E t \in db.town : t.id = r.town_id /\ t.name = Upper(last.town)}
C10_InWindow ==
    {r \in C10_Segment : \A q \in C10_Segment : r.month >= q.month - 24}
C10_BandEmpty(lo2, hi2) ==
    \A r \in C10_InWindow :
        ~(lo2 <= r.storey_low + r.storey_high /\ r.storey_low + r.storey_high <= hi2)
C10_InRange(x) == 95 * x.d <= 100 * x.n /\ 100 * x.n <= 110 * x.d

(* C10: every multiplier _floor_premiums returns for low, mid and high lies *)
(* in [0.95, 1.10]; a segment without transactions gets 1.0 for all three  *)
(* bands, and a band without a transaction in the window gets 1.0.         *)
C10_PremiumsInRange ==
    (last.op = "_floor_premiums" /\ ~last.res.raised) =>
        LET v == last.res.value
        IN  /\ C10_InRange(v.low) /\ C10_InRange(v.mid) /\ C10_InRange(v.high)
            /\ C10_Segment = {} => (v.low = One /\ v.mid = One /\ v.high = One)
            /\ C10_BandEmpty(0, 6) => v.low = One
            /\ C10_BandEmpty(7, 19) => v.mid = One
            /\ C10_BandEmpty(20, 1000) => v.high = One

\* a computed result with the low band clamped up to 0.95 and the high band
\* an unclamped ratio other than 1.0
C10_Witness ==
    /\ last.op = "_floor_premiums" /\ ~last.res.raised /\ ~last.hit
    /\ last.res.value.low = ClipLo
    /\ last.res.value.high # One
    /\ RatLt(ClipLo, last.res.value.high) /\ RatLt(last.res.value.high, ClipHi)

-----------------------------------------------------------------------------
(***************************************************************************)
(* The two tools called directly, as the tests and the UI call them.       *)
(***************************************************************************)
DbOf(ids) == [town |-> TownTable,
              resale_transaction |-> {r \in TxnPool : r.id \in ids}]

ToolStorages == {DbOf({1, 2, 3}), DbOf({2, 4, 8}), DbOf({})}

\* the wall clock during the model's calls: November 2026
Today == Ym(2026, 11)

M2025_08 == <<"2", "0", "2", "5", "-", "0", "8">>
r4_lc == <<"4", " ", "r", "o", "o", "m">>

PriceArgs ==
    {[town |-> AMK,    flat_type |-> R4,    month |-> None],
     [town |-> amk_lc, flat_type |-> r4_lc, month |-> M2025_08],
     [town |-> BISHAN, flat_type |-> R4,    month |-> None],
     [town |-> None,   flat_type |-> R4,    month |-> M2025_08]}

\* which telemetry writes of the call fail, by position in the call
TelFails == {{}, {1}, {2, 4}, {1, 2, 3, 4}}

Env(storage, telfail) == [storage |-> storage, telfail |-> telfail, today |-> Today]

\* the bands argument together with what the environment does during the call
PriceInputs ==
    {[bands |-> DefaultBands, env |-> Env("ok", f)] : f \in TelFails}
    \cup {[bands |-> DefaultBands, env |-> Env(s, f)] :
            s \in {"fail1", "fail2"}, f \in {{}, {1}}}
    \cup {[bands |-> Bands(<<"high", "attic">>), env |-> Env("ok", f)] :
            f \in {{}, {1}, {1, 2, 3, 4}}}
    \cup {[bands |-> NotIterable, env |-> Env("ok", {})]}

LowArgs ==
    {[last_n_years |-> <<2>>,  flat_type |-> None,  top_k |-> <<1>>],
     [last_n_years |-> <<10>>, flat_type |-> r4_lc, top_k |-> <<8>>],
     [last_n_years |-> <<10>>, flat_type |-> None,  top_k |-> <<1>>],
     [last_n_years |-> NULL,   flat_type |-> None,  top_k |-> <<8>>],
     [last_n_years |-> <<10>>, flat_type |-> None,  top_k |-> NULL]}

LowEnvs ==
    {Env("ok", {}), Env("ok", {1}), Env("fail1", {})}

InitTools ==
    /\ db \in ToolStorages
    /\ TOWNS = <<>>
    /\ FLATS = <<>>
    /\ CONF = DefaultCONF
    /\ central_model \in Models
    /\ cache = <<>>
    /\ tel = EmptyTel
    /\ last = NoCall
    /\ ncalls = 0

TelAfter(r) == [tool_calls |-> tel.tool_calls + r.ntool,
                predictions |-> tel.predictions + r.npred]

CallPriceEstimates ==
    /\ ncalls < MaxCalls
    /\ \E a \in PriceArgs, i \in PriceInputs :
        LET args == [town |-> a.town, flat_type |-> a.flat_type, month |-> a.month,
                     bands |-> i.bands]
            env  == i.env
        IN  \E r \in {t_price_estimates(cache, db, central_model, CONF, args, env)} :
            /\ ncalls' = ncalls + 1
            /\ cache' = r.cache
            /\ tel' = TelAfter(r)
            /\ last' = [op |-> "t_price_estimates", args |-> args, env |-> env,
                        res |-> r.res, trace |-> r.trace,
                        pre |-> [cache |-> cache]]
            /\ UNCHANGED <<db, TOWNS, FLATS, CONF, central_model>>

CallLowSupply ==
    /\ ncalls < MaxCalls
    /\ \E a \in LowArgs, env \in LowEnvs :
        \E r \in {t_low_supply(db, a, env)} :
            /\ ncalls' = ncalls + 1
            /\ tel' = TelAfter(r)
            /\ last' = [op |-> "t_low_supply", args |-> a, env |-> env,
                        res |-> r.res, trace |-> r.trace,
                        pre |-> [cache |-> cache]]
            /\ UNCHANGED <<db, TOWNS, FLATS, CONF, central_model, cache>>

NextTools == CallPriceEstimates \/ CallLowSupply

SpecTools == InitTools /\ [][NextTools]_vars

-----------------------------------------------------------------------------
(***************************************************************************)
(* Properties of the tools.                                                *)
(***************************************************************************)
IsPriceCall == last.op = "t_price_estimates"

Payload == last.res.value

PredictEvents == SelectSeq(last.trace, LAMBDA e : e.ev = "predict")

PredictionLogs == SelectSeq(last.trace, LAMBDA e : e.ev = "log_prediction")

(* C6: t_price_estimates never raises to its caller: whatever the arguments *)
(* (town, flat_type, month, bands) and whatever fails in storage, premium   *)
(* computation or the model, the call returns a mapping, and on failure the *)
(* mapping carries an 'error' key.                                          *)
C6_NeverRaises ==
    IsPriceCall =>
        /\ ~last.res.raised
        /\ ("rows" \notin DOMAIN Payload) => ("error" \in DOMAIN Payload)

(* C7: a successful t_price_estimates response has exactly len(bands) rows, *)
(* the i-th row's band is the i-th requested band, every row carries        *)
(* resale_pred, bto_proxy, required_income and floor_premium_applied, and   *)
(* required_income > 0 whenever the model's prediction for the row is       *)
(* positive.                                                                *)
C7_OneRowPerBand ==
    (IsPriceCall /\ ~last.res.raised /\ "error" \notin DOMAIN Payload) =>
        LET rows  == Payload.rows
            bands == last.args.bands.items
        IN  /\ SegmentRows(db, last.args.town, last.args.flat_type) # {}
            /\ Len(rows) = Len(bands)
            /\ Len(PredictEvents) = Len(bands)
            /\ \A i \in 1..Len(rows) :
                 /\ rows[i].band = bands[i]
                 /\ {"resale_pred", "bto_proxy", "required_income",
                     "floor_premium_applied"} \subseteq DOMAIN rows[i]
                 /\ RatPos(ModelPredict(central_model, PredictEvents[i].rec))
                       => RatPos(rows[i].required_income)

C7_Witness ==
    /\ IsPriceCall /\ ~last.res.raised /\ "rows" \in DOMAIN Payload
    /\ last.args.bands = Bands(<<"high", "attic">>)
    /\ central_model = "storey"
    /\ Len(Payload.rows) = 2
    /\ RatPos(Payload.rows[1].required_income)
    /\ ~RatPos(Payload.rows[2].required_income)

(* C8: when storage holds no transaction for the requested (town,           *)
(* flat_type), t_price_estimates returns a payload with an 'error' key and  *)
(* no 'rows' key instead of raising, the model is never called and no       *)
(* prediction telemetry is written for that call.                           *)
C8_NoDataIsErrorPayload ==
    (/\ IsPriceCall
     /\ IsStr(last.args.town) /\ IsStr(last.args.flat_type)
     /\ SegmentRows(db, last.args.town, last.args.flat_type) = {}) =>
        /\ ~last.res.raised
        /\ "error" \in DOMAIN Payload
        /\ "rows" \notin DOMAIN Payload
        /\ PredictEvents = <<>>
        /\ PredictionLogs = <<>>

(* C9: telemetry never affects a tool's result: from the same inputs,       *)
(* storage and premium cache, t_price_estimates and t_low_supply return     *)
(* what they return when every log_tool and log_prediction write succeeds,  *)
(* whichever of those writes raise.                                         *)
C9_TelemetryNeverAffectsResult ==
    /\ IsPriceCall =>
          last.res = t_price_estimates(last.pre.cache, db, central_model, CONF,
                         last.args, Env(last.env.storage, {})).res
    /\ last.op = "t_low_supply" =>
          last.res = t_low_supply(db, last.args, Env(last.env.storage, {})).res

C9_Witness ==
    /\ IsPriceCall /\ ~last.res.raised /\ "rows" \in DOMAIN Payload
    /\ Len(Payload.rows) = 3
    /\ last.env.telfail = {2, 4}
    /\ \E i \in 1..Len(last.trace) :
          last.trace[i].ev = "log_prediction" /\ ~last.trace[i].ok
    /\ last.trace[Len(last.trace)] =
          [ev |-> "log_tool", tool |-> "price_estimates", success |-> TRUE, ok |-> FALSE]

IsToolCall == last.op \in {"t_price_estimates", "t_low_supply"}

\* the connections a call opened and those it closed
Opened == SelectSeq(last.trace, LAMBDA e : e.ev = "connect")
Closed == SelectSeq(last.trace, LAMBDA e : e.ev = "close")

(* C22: every storage connection opened during a call of t_price_estimates *)
(* (its own and that of _floor_premiums) or of t_low_supply is closed by   *)
(* the time the call returns, on the success path and on every error path. *)
C22_ConnectionsClosed ==
    IsToolCall => Len(Closed) = Len(Opened)

LogToolEvents == SelectSeq(last.trace, LAMBDA e : e.ev = "log_tool")

(* C23: every call of t_price_estimates or t_low_supply makes exactly one  *)
(* log_tool attempt, as the last thing it does, with a success flag that   *)
(* is true exactly when the returned payload has no 'error' key; a         *)
(* successful t_price_estimates call makes, before it, exactly one         *)
(* log_prediction attempt per returned row, in row order.                  *)
C23_OneLogToolPerCall ==
    IsToolCall
    => /\ Len(LogToolEvents) = 1
       /\ last.trace[Len(last.trace)].ev = "log_tool"
       /\ ~last.res.raised
       /\ LogToolEvents[1].success <=> ("error" \notin DOMAIN Payload)
       /\ (IsPriceCall /\ "error" \notin DOMAIN Payload)
          => /\ Len(PredictionLogs) = Len(Payload.rows)
             /\ \A i \in 1..Len(Payload.rows) :
                    PredictionLogs[i].band = Payload.rows[i].band

\* the storey range the claim gives for a band name
StoreyRange(b) ==
    IF b = "low" THEN <<1, 3>> ELSE IF b = "high" THEN <<10, 12>> ELSE <<4, 6>>

(* C24: each row of a t_price_estimates response comes from a model query  *)
(* with the storey range of its band (low 1-3, mid 4-6, high 10-12, any    *)
(* other name 4-6); floor_premium_applied is the response's premium of the *)
(* band, 1.0 for a name not in the premiums; resale_pred is the model's    *)
(* central prediction times floor_premium_applied and bto_proxy is         *)
(* resale_pred times (1 - discount).                                       *)
C24_RowDerivation ==
    (IsPriceCall /\ ~last.res.raised /\ "error" \notin DOMAIN Payload)
    => /\ Len(PredictEvents) = Len(Payload.rows)
       /\ \A i \in 1..Len(Payload.rows) :
            /\ PredictEvents[i].rec.storey_low = StoreyRange(Payload.rows[i].band)[1]
            /\ PredictEvents[i].rec.storey_high = StoreyRange(Payload.rows[i].band)[2]
            /\ Payload.rows[i].floor_premium_applied =
                   (IF Payload.rows[i].band \in DOMAIN Payload.premiums
                    THEN Payload.premiums[Payload.rows[i].band] ELSE One)
            /\ Payload.rows[i].resale_pred =
                   RatMul(ModelPredict(central_model, PredictEvents[i].rec),
                          Payload.rows[i].floor_premium_applied)
            /\ Payload.rows[i].bto_proxy =
                   RatMul(Payload.rows[i].resale_pred, RatSub(One, Payload.finance.discount))

C24_Witness ==
    /\ IsPriceCall /\ ~last.res.raised /\ "error" \notin DOMAIN Payload
    /\ central_model = "storey"
    /\ Len(Payload.rows) = 2
    /\ Payload.rows[1].band = "high"
    /\ Payload.rows[1].floor_premium_applied = Rat(25, 24)
    /\ Payload.rows[2].band = "attic"
    /\ Payload.rows[2].floor_premium_applied = One
    /\ PredictEvents[2].rec.storey_low = 4
    /\ PredictEvents[2].rec.storey_high = 6




-----------------------------------------------------------------------------
(***************************************************************************)
(* Python values that travel through the router and the agent: the route   *)
(* dicts and what json.loads yields.  A dict is a function from its keys.  *)
(***************************************************************************)
PStr(s)  == [t |-> "str", v |-> s]
PInt(n)  == [t |-> "int", v |-> n]
PDict(f) == [t |-> "dict", v |-> f]
PList(s) == [t |-> "list", v |-> s]
PNone    == [t |-> "none"]

\* a str-or-None of the tools as a Python value, and back; the tools treat
\* every value that is not a str as they treat None
OfStr(x) == IF x = None THEN PNone ELSE PStr(x)
ToStr(j) == IF j.t = "str" THEN j.v ELSE None
ToOptInt(j) == IF j.t = "int" THEN <<j.v>> ELSE NULL
ToBands(j) == IF j.t = "list" THEN Bands(j.v) ELSE NotIterable

\* bool(x) is False
Falsy(j) ==
    \/ j.t = "none"
    \/ j.t = "int" /\ j.v = 0
    \/ j.t \in {"str", "list"} /\ j.v = <<>>
    \/ j.t = "dict" /\ DOMAIN j.v = {}

\* d.get(key, default) of a dict
DictGet(j, key, default) == IF key \in DOMAIN j.v THEN j.v[key] ELSE default

\* tool names and literal texts; the program only compares them whole
PRICE_ESTIMATES == <<"price_estimates">>
LOW_SUPPLY == <<"low_supply">>
FINAL == <<"final">>
Apology == <<"Sorry, I can't handle that request yet.">>

-----------------------------------------------------------------------------
(***************************************************************************)
(* LLM/router.py: the deterministic router.                                *)
(***************************************************************************)
LowerChar(c) ==
    IF IsUpperCh(c) THEN LowerChars[CHOOSE i \in 1..26 : UpperChars[i] = c] ELSE c

Lower(s) == [i \in 1..Len(s) |-> LowerChar(s[i])]

CharAt(s, i) == IF i >= 1 /\ i <= Len(s) THEN s[i] ELSE ""

\* sub in s
Contains(sub, s) ==
    \E i \in 0..(Len(s) - Len(sub)) : SubSeq(s, i + 1, i + Len(sub)) = sub

\* re.sub(r"[^A-Z0-9]+", "", s.upper())
_norm(s) == SelectSeq(Upper(s), LAMBDA c : IsUpperCh(c) \/ IsDigit(c))

\* (20\d{2})[-/ ]?(\d{1,2}) matched at position p: where the month digits
\* start, or 0 when there is no match at p
MonthDigitsAt(text, p) ==
    IF /\ CharAt(text, p) = "2" /\ CharAt(text, p + 1) = "0"
       /\ IsDigit(CharAt(text, p + 2)) /\ IsDigit(CharAt(text, p + 3))
    THEN IF CharAt(text, p + 4) \in {"-", "/", " "} /\ IsDigit(CharAt(text, p + 5))
         THEN p + 5
         ELSE IF IsDigit(CharAt(text, p + 4)) THEN p + 4 ELSE 0
    ELSE 0

\* int(m.group(2)): \d{1,2} is greedy
MonthNumberAt(text, q) ==
    IF IsDigit(CharAt(text, q + 1))
    THEN 10 * DigitVal(text[q]) + DigitVal(text[q + 1])
    ELSE DigitVal(text[q])

\* f"{y}-{mm:02d}"
MonthText(y, mm) == y \o <<"-", DigitChars[(mm \div 10) + 1], DigitChars[(mm % 10) + 1]>>

MonthOfMatch_AnyNumber(text, p, mm) == MonthText(SubSeq(text, p, p + 3), mm)

MonthOfMatch(text, p, mm) ==
    IF 1 <= mm /\ mm <= 12 THEN MonthText(SubSeq(text, p, p + 3), mm) ELSE None

MonthAt(text, p) == MonthOfMatch(text, p, MonthNumberAt(text, MonthDigitsAt(text, p)))

\* re.search: the leftmost match only
_guess_month(text) ==
    IF \E p \in 1..Len(text) : MonthDigitsAt(text, p) > 0
    THEN MonthAt(text, CHOOSE p \in 1..Len(text) :
                          /\ MonthDigitsAt(text, p) > 0
                          /\ \A q \in 1..(p - 1) : MonthDigitsAt(text, q) = 0)
    ELSE None

W_limited == <<"l", "i", "m", "i", "t", "e", "d">>
W_few == <<"f", "e", "w">>
W_scarce == <<"s", "c", "a", "r", "c", "e">>
W_launch == <<"l", "a", "u", "n", "c", "h">>
W_bto == <<"b", "t", "o">>
W_supply == <<"s", "u", "p", "p", "l", "y">>
W_low == <<"l", "o", "w">>

HasWordAt(s, p, w) == p + Len(w) - 1 <= Len(s) /\ SubSeq(s, p, p + Len(w) - 1) = w

IsSpace(c) == c \in {" ", "\t", "\n", "\r", "\f"}

\* (limited|few|scarce).*(launch|bto|supply) on the lower-cased text
ScarceThenLaunch(t) ==
    \E w1 \in {W_limited, W_few, W_scarce}, w2 \in {W_launch, W_bto, W_supply} :
      \E i \in 1..Len(t), j \in 1..Len(t) :
        /\ HasWordAt(t, i, w1)
        /\ j >= i + Len(w1)
        /\ HasWordAt(t, j, w2)
        /\ \A k \in (i + Len(w1))..(j - 1) : t[k] # "\n"

\* low\s*supply on the lower-cased text
LowThenSupply(t) ==
    \E i \in 1..Len(t), j \in 1..Len(t) :
        /\ HasWordAt(t, i, W_low)
        /\ j >= i + Len(W_low)
        /\ HasWordAt(t, j, W_supply)
        /\ \A k \in (i + Len(W_low))..(j - 1) : IsSpace(t[k])

\* re.search(r"(limited|few|scarce).*(launch|bto|supply)|low\s*supply", text, re.I)
LowSupplyIntent(text) == ScarceThenLaunch(Lower(text)) \/ LowThenSupply(Lower(text))

\* difflib.SequenceMatcher: the length of the common run starting at a[i], b[j]
RECURSIVE CommonLen(_, _, _, _, _, _)
CommonLen(a, b, i, j, ahi, bhi) ==
    IF i <= ahi /\ j <= bhi /\ a[i] = b[j]
    THEN 1 + CommonLen(a, b, i + 1, j + 1, ahi, bhi)
    ELSE 0

\* find_longest_match: the longest block, the earliest in a, then in b
BestBlock(blocks) ==
    CHOOSE m \in blocks :
        \A n \in blocks :
            \/ m[3] > n[3]
            \/ m[3] = n[3] /\ m[1] < n[1]
            \/ m[3] = n[3] /\ m[1] = n[1] /\ m[2] <= n[2]

LongestMatch(a, b, alo, ahi, blo, bhi) ==
    IF alo > ahi \/ blo > bhi THEN <<alo, blo, 0>>
    ELSE BestBlock({<<p[1], p[2], CommonLen(a, b, p[1], p[2], ahi, bhi)>> :
                       p \in (alo..ahi) \X (blo..bhi)})

\* get_matching_blocks: the number of matched characters
RECURSIVE MatchCount(_, _, _, _, _, _)
RECURSIVE MatchSplit(_, _, _, _, _, _, _)
MatchSplit(a, b, alo, ahi, blo, bhi, m) ==
    IF m[3] = 0 THEN 0
    ELSE m[3] + MatchCount(a, b, alo, m[1] - 1, blo, m[2] - 1)
              + MatchCount(a, b, m[1] + m[3], ahi, m[2] + m[3], bhi)

MatchCount(a, b, alo, ahi, blo, bhi) ==
    MatchSplit(a, b, alo, ahi, blo, bhi, LongestMatch(a, b, alo, ahi, blo, bhi))

Matches(a, b) == MatchCount(a, b, 1, Len(a), 1, Len(b))

\* ratio() >= 0.75, ratio = 2.0 * matches / (len(a) + len(b))
IsClose(x, word) == 8 * Matches(x, word) >= 3 * (Len(x) + Len(word))

\* (ratio(x), x) > (ratio(y), y)
CloserThan(x, y, word) ==
    \/ Matches(x, word) * (Len(y) + Len(word)) > Matches(y, word) * (Len(x) + Len(word))
    \/ /\ Matches(x, word) * (Len(y) + Len(word)) = Matches(y, word) * (Len(x) + Len(word))
       /\ StrLt(y, x)

Range(s) == {s[i] : i \in 1..Len(s)}

\* difflib.get_close_matches(word, possibilities, n=1, cutoff=0.75)
BestOfClose(close, word) ==
    IF close = {} THEN None
    ELSE CHOOSE x \in close : \A y \in close \ {x} : CloserThan(x, y, word)

get_close_matches(word, possibilities) ==
    BestOfClose({x \in Range(possibilities) : IsClose(x, word)}, word)

\* the loop of lines 32-34: the first candidate that contains tok or is
\* contained in it
IsContained(c, tok) == Contains(_norm(c), tok) \/ Contains(tok, _norm(c))

MatchByContainment(candidates, text, tok) ==
    IF \E i \in 1..Len(candidates) : IsContained(candidates[i], tok)
    THEN candidates[CHOOSE i \in 1..Len(candidates) :
                       /\ IsContained(candidates[i], tok)
                       /\ \A k \in 1..(i - 1) : ~IsContained(candidates[k], tok)]
    ELSE get_close_matches(Upper(text), candidates)

_best_match(candidates, text) ==
    IF text = <<>> THEN None
    ELSE MatchByContainment(candidates, text, _norm(text))

PriceArgsOf_MonthAlways(town, flat, month) ==
    [town |-> PStr(IF town # None /\ town # <<>> THEN town ELSE AMK),
     flat_type |-> PStr(IF flat # None /\ flat # <<>> THEN flat ELSE R4),
     month |-> OfStr(month)]

\* lines 46-52
PriceArgsOf(town, flat, month) ==
    IF month # None
    THEN [town |-> PStr(IF town # None /\ town # <<>> THEN town ELSE AMK),
          flat_type |-> PStr(IF flat # None /\ flat # <<>> THEN flat ELSE R4),
          month |-> PStr(month)]
    ELSE [town |-> PStr(IF town # None /\ town # <<>> THEN town ELSE AMK),
          flat_type |-> PStr(IF flat # None /\ flat # <<>> THEN flat ELSE R4)]

PriceRouteOf(town, flat, month) ==
    IF (town # None /\ town # <<>>) \/ (flat # None /\ flat # <<>>) \/ month # None
    THEN PDict([tool |-> PStr(PRICE_ESTIMATES),
                args |-> PDict(PriceArgsOf(town, flat, month))])
    ELSE PNone

\* lines 43-44
LowSupplyRouteOf(flat) ==
    PDict([tool |-> PStr(LOW_SUPPLY),
           args |-> PDict([last_n_years |-> PInt(10), flat_type |-> OfStr(flat)])])

\* the orders in which SELECT DISTINCT may list a set of names
Orders(S) == {s \in [1..Cardinality(S) -> S] : Range(s) = S}

_deterministic_route_Reloading(towns, flats, user_text) ==
    IF LowSupplyIntent(user_text)
    THEN LowSupplyRouteOf(
             _best_match(CHOOSE s \in Orders({Upper(r.flat_type) : r \in db.resale_transaction}) : TRUE,
                         user_text))
    ELSE PriceRouteOf(
             _best_match(CHOOSE s \in Orders({Upper(t.name) : t \in db.town}) : TRUE, user_text),
             _best_match(CHOOSE s \in Orders({Upper(r.flat_type) : r \in db.resale_transaction}) : TRUE,
                         user_text),
             _guess_month(user_text))

_deterministic_route(towns, flats, user_text) ==
    IF LowSupplyIntent(user_text)
    THEN LowSupplyRouteOf(_best_match(flats, user_text))
    ELSE PriceRouteOf(_best_match(towns, user_text), _best_match(flats, user_text),
                      _guess_month(user_text))

-----------------------------------------------------------------------------
(***************************************************************************)
(* LLM/config.py: generate; LLM/router.py: llm_route; LLM/writer.py.       *)
(*                                                                         *)
(* What the text-generation backend answers is an input of a request: it   *)
(* raises, or it returns a text.  Such a text is a sequence of chunks: a   *)
(* brace or a white-space character is a chunk of its own, the other       *)
(* chunks hold neither.                                                    *)
(***************************************************************************)
Backend(raises, out) == [raises |-> raises, out |-> out]

\* generate(prompt): the pipeline call of LLM/config.py:15-17
generate(b) ==
    IF b.raises THEN Raise("RuntimeError", <<"text generation failed">>)
    ELSE Ret(b.out)

\* str.strip()
RECURSIVE LStrip(_)
LStrip(s) == IF s # <<>> /\ IsSpace(s[1]) THEN LStrip(Tail(s)) ELSE s

RECURSIVE RStrip(_)
RStrip(s) ==
    IF s # <<>> /\ IsSpace(s[Len(s)]) THEN RStrip(SubSeq(s, 1, Len(s) - 1)) ELSE s

Strip(s) == RStrip(LStrip(s))

LB == "{"
RB == "}"

\* JSON texts and the values json.loads gives them
JsonTable ==
    <<
      [text  |-> <<LB, "\"tool\": \"final\", \"args\": ", LB, "\"answer\": \"Hi\"", RB, RB>>,
       value |-> PDict([tool |-> PStr(FINAL),
                        args |-> PDict([answer |-> PStr(<<"Hi">>)])])],
      [text  |-> <<LB, "\"tool\": \"final\", \"args\": \"done\"", RB>>,
       value |-> PDict([tool |-> PStr(FINAL), args |-> PStr(<<"done">>)])],
      [text  |-> <<LB, "\"tool\": \"final\"", RB>>,
       value |-> PDict([tool |-> PStr(FINAL)])],
      [text  |-> <<LB, "\"args\": ", LB, "\"answer\": \"Hi\"", RB, RB>>,
       value |-> PDict([args |-> PDict([answer |-> PStr(<<"Hi">>)])])],
      [text  |-> <<LB, "\"tool\": \"weather\", \"args\": ", LB, RB, RB>>,
       value |-> PDict([tool |-> PStr(<<"weather">>), args |-> PDict(<<>>)])],
      [text  |-> <<LB, "\"tool\": null", RB>>,
       value |-> PDict([tool |-> PNone])],
      [text  |-> <<LB, "\"tool\": [\"price_estimates\"]", RB>>,
       value |-> PDict([tool |-> PList(<<PStr(PRICE_ESTIMATES)>>)])],
      [text  |-> <<LB, "\"tool\": \"price_estimates\", \"args\": ", LB,
                   "\"town\": \"BISHAN\", \"flat_type\": \"4 ROOM\"", RB, RB>>,
       value |-> PDict([tool |-> PStr(PRICE_ESTIMATES),
                        args |-> PDict([town |-> PStr(BISHAN), flat_type |-> PStr(R4)])])],
      [text  |-> <<LB, "\"tool\": \"price_estimates\", \"args\": ", LB,
                   "\"town\": \"BISHAN\", \"flat_type\": \"4 ROOM\", \"bands\": null",
                   RB, RB>>,
       value |-> PDict([tool |-> PStr(PRICE_ESTIMATES),
                        args |-> PDict([town |-> PStr(BISHAN), flat_type |-> PStr(R4),
                                        bands |-> PNone])])],
      [text  |-> <<LB, "\"tool\": \"price_estimates\", \"args\": ", LB,
                   "\"town\": \"BISHAN\"", RB, RB>>,
       value |-> PDict([tool |-> PStr(PRICE_ESTIMATES),
                        args |-> PDict([town |-> PStr(BISHAN)])])],
      [text  |-> <<LB, "\"tool\": \"low_supply\", \"args\": ", LB, "\"years\": 5", RB, RB>>,
       value |-> PDict([tool |-> PStr(LOW_SUPPLY),
                        args |-> PDict([years |-> PInt(5)])])],
      [text  |-> <<LB, "\"tool\": \"low_supply\"", RB>>,
       value |-> PDict([tool |-> PStr(LOW_SUPPLY)])]
    >>

\* json.loads(s)
JsonLoads(s) ==
    IF \E i \in DOMAIN JsonTable : JsonTable[i].text = s
    THEN Ret(JsonTable[CHOOSE i \in DOMAIN JsonTable : JsonTable[i].text = s].value)
    ELSE Raise("JSONDecodeError", <<"Expecting value">>)

\* out.index(c), out.rindex(c), 0 when c is not in out
Index(out, c) ==
    IF \E i \in 1..Len(out) : out[i] = c
    THEN CHOOSE i \in 1..Len(out) : out[i] = c /\ \A k \in 1..(i - 1) : out[k] # c
    ELSE 0

RIndex(out, c) ==
    IF \E i \in 1..Len(out) : out[i] = c
    THEN CHOOSE i \in 1..Len(out) : out[i] = c /\ \A k \in (i + 1)..Len(out) : out[k] # c
    ELSE 0

\* lines 69-70: json.loads(out[out.index("{") : out.rindex("}") + 1])
ParseRoute(out) ==
    IF Index(out, LB) = 0 \/ RIndex(out, RB) = 0
    THEN Raise("ValueError", <<"substring not found">>)
    ELSE JsonLoads(SubSeq(out, Index(out, LB), RIndex(out, RB)))

\* line 73
DefaultRoute ==
    PDict([tool |-> PStr(PRICE_ESTIMATES),
           args |-> PDict([town |-> PStr(AMK), flat_type |-> PStr(R4)])])

\* lines 68-73
ParseOrDefault(out) ==
    IF ParseRoute(out).raised THEN DefaultRoute ELSE ParseRoute(out).value

DetEv(det) == [ev |-> "_deterministic_route", det |-> det]
GenEv(by, raised) == [ev |-> "generate", by |-> by, raised |-> raised]

\* lines 66-73, with the backend's answer g in hand
RouteFromBackend(det, g) ==
    IF g.raised
    THEN [res |-> g, trace |-> <<DetEv(det), GenEv("router", TRUE)>>]
    ELSE [res |-> Ret(ParseOrDefault(Strip(g.value))),
          trace |-> <<DetEv(det), GenEv("router", FALSE)>>]

RouteAfterDet_AlwaysBackend(det, b) == RouteFromBackend(det, generate(b))

\* lines 64-67: if det: return det
RouteAfterDet(det, b) ==
    IF ~Falsy(det) THEN [res |-> Ret(det), trace |-> <<DetEv(det)>>]
    ELSE RouteFromBackend(det, generate(b))

llm_route(towns, flats, user_text, b) ==
    RouteAfterDet(_deterministic_route(towns, flats, user_text), b)

\* llm_write(data, user_msg)
WriterResult(data, g) ==
    [res   |-> IF g.raised THEN g ELSE Ret(PStr(Strip(g.value))),
     trace |-> <<[ev |-> "llm_write", data |-> data, raised |-> g.raised]>>]

llm_write(data, user_msg, b) == WriterResult(data, generate(b))

-----------------------------------------------------------------------------
(***************************************************************************)
(* LLM/agent.py: run_agent.                                                *)
(***************************************************************************)
TOOL_REGISTRY == {PRICE_ESTIMATES, LOW_SUPPLY}

\* the keyword parameters of a registered function, and those without default
Params(name) ==
    IF name = PRICE_ESTIMATES THEN {"town", "flat_type", "month", "bands"}
    ELSE {"last_n_years", "flat_type", "top_k"}

Required(name) == IF name = PRICE_ESTIMATES THEN {"town", "flat_type"} ELSE {}

\* fn(**args): the TypeError of the call itself, "" when the call binds
BindError(name, args) ==
    IF args.t # "dict" THEN "argument after ** must be a mapping"
    ELSE IF ~(DOMAIN args.v \subseteq Params(name)) THEN "got an unexpected keyword argument"
    ELSE IF ~(Required(name) \subseteq DOMAIN args.v) THEN "missing required positional argument"
    ELSE ""

PriceKw(args) ==
    [town |-> ToStr(args.v.town), flat_type |-> ToStr(args.v.flat_type),
     month |-> IF "month" \in DOMAIN args.v THEN ToStr(args.v.month) ELSE None,
     bands |-> IF "bands" \in DOMAIN args.v THEN ToBands(args.v.bands) ELSE DefaultBands]

LowKw(args) ==
    [last_n_years |-> IF "last_n_years" \in DOMAIN args.v
                      THEN ToOptInt(args.v.last_n_years) ELSE <<10>>,
     flat_type |-> IF "flat_type" \in DOMAIN args.v THEN ToStr(args.v.flat_type) ELSE None,
     top_k |-> IF "top_k" \in DOMAIN args.v THEN ToOptInt(args.v.top_k) ELSE <<8>>]

CallEv(name, args, bound) == [ev |-> "tool", tool |-> name, args |-> args, bound |-> bound]

NoToolCall(c) == [cache |-> c, npred |-> 0, ntool |-> 0]

WithCallEv(name, args, c, r) ==
    [res |-> r.res, trace |-> <<CallEv(name, args, TRUE)>> \o r.trace,
     cache |-> IF name = PRICE_ESTIMATES THEN r.cache ELSE c,
     npred |-> r.npred, ntool |-> r.ntool]

\* line 26: data = fn(**args)
ToolCall(c, d, model, conf, name, args, env) ==
    IF BindError(name, args) # ""
    THEN [res |-> Raise("TypeError", <<BindError(name, args)>>),
          trace |-> <<CallEv(name, args, FALSE)>>,
          cache |-> c, npred |-> 0, ntool |-> 0]
    ELSE IF name = PRICE_ESTIMATES
    THEN WithCallEv(name, args, c,
                    t_price_estimates(c, d, model, conf, PriceKw(args), env))
    ELSE WithCallEv(name, args, c, t_low_supply(d, LowKw(args), env))

\* lines 15-16
ToolOf(route) == DictGet(route, "tool", PStr(FINAL))

ArgsOf(route) ==
    IF Falsy(DictGet(route, "args", PDict(<<>>))) THEN PDict(<<>>)
    ELSE DictGet(route, "args", PDict(<<>>))

IsFinal(tool) == tool.t = "str" /\ tool.v = FINAL

\* TOOL_REGISTRY.get(tool) finds a function
IsRegistered_AnyName(tool) == tool.t = "str"

IsRegistered(tool) == tool.t = "str" /\ tool.v \in TOOL_REGISTRY

\* str(tool) in the f-string of line 23
PyStr(tool) ==
    IF tool.t = "str" THEN tool.v
    ELSE IF tool.t = "none" THEN <<"None">>
    ELSE <<"<other>">>

\* what a request comes to: its result, the calls it made, the premium cache
\* and the telemetry rows it leaves, and what the router returned
AgentOut(res, trace, call, routed) ==
    [res |-> res, trace |-> trace, cache |-> call.cache, npred |-> call.npred,
     ntool |-> call.ntool, routed |-> routed]

\* lines 18-19
FinalResult(route, args) ==
    IF args.t = "dict"
    THEN Ret([route |-> route, data |-> [tool |-> FINAL, args |-> args],
              answer |-> DictGet(args, "answer", PStr(<<>>))])
    ELSE Raise("AttributeError", <<"object has no attribute 'get'">>)

\* lines 22-24
UnknownTool(route, tool) ==
    Ret([route |-> route,
         data |-> [error |-> <<"Unknown tool '">> \o PyStr(tool) \o <<"'">>],
         answer |-> PStr(Apology)])

\* lines 28-29
Tagged(data, name) == IF "tool" \in DOMAIN data THEN data ELSE [tool |-> name] @@ data

\* lines 31-32, with the writer's outcome w in hand
AgentWritten(route, data, t, call, routed, w) ==
    AgentOut(IF w.res.raised THEN w.res
             ELSE Ret([route |-> route, data |-> data, answer |-> w.res.value]),
             t \o w.trace, call, routed)

\* lines 26-32, with the outcome of fn(**args) in hand
AgentCalled(user_text, x, route, t, name, routed, call) ==
    IF call.res.raised
    THEN AgentOut(call.res, t \o call.trace, call, routed)
    ELSE AgentWritten(route, Tagged(call.res.value, name), t \o call.trace, call, routed,
             llm_write([tool |-> name, result |-> Tagged(call.res.value, name)],
                       user_text, x.writer))

\* lines 18-26
AgentDispatch(c, d, model, conf, user_text, x, route, t, routed, tool, args) ==
    IF IsFinal(tool)
    THEN AgentOut(FinalResult(route, args), t, NoToolCall(c), routed)
    ELSE IF tool.t \in {"dict", "list"}
    THEN AgentOut(Raise("TypeError", <<"unhashable type">>), t, NoToolCall(c), routed)
    ELSE IF ~IsRegistered(tool)
    THEN AgentOut(UnknownTool(route, tool), t, NoToolCall(c), routed)
    ELSE AgentCalled(user_text, x, route, t, tool.v, routed,
                     ToolCall(c, d, model, conf, tool.v, args, x.env))

\* lines 14-16, with the router's outcome r in hand
AgentRouted(c, d, model, conf, user_text, x, r) ==
    IF r.res.raised
    THEN AgentOut(r.res, r.trace, NoToolCall(c), r.res)
    ELSE AgentDispatch(c, d, model, conf, user_text, x, r.res.value, r.trace, r.res,
                       ToolOf(r.res.value), ArgsOf(r.res.value))

\* run_agent(user_text); x: what the two text generations and the storage
\* and telemetry of the tools do during the request
run_agent(c, d, model, conf, towns, flats, user_text, x) ==
    AgentRouted(c, d, model, conf, user_text, x,
                llm_route(towns, flats, user_text, x.router))

-----------------------------------------------------------------------------
(***************************************************************************)
(* Requests to the agent.                                                  *)
(***************************************************************************)
AgentDb ==
    [town |-> TownTable,
     resale_transaction |->
        {r \in TxnPool : r.id \in {1, 2, 3, 8}}
        \cup {Txn(10, Ym(2025, 8), 2, R3, <<NEWGEN>>, 4, 6, 67, <<1985>>, <<700>>, <<400>>)}]

U_price == <<"b", "i", "s", "h", "a", "n", " ", "4", " ", "r", "o", "o", "m", " ", "2", "0", "2", "5", "-", "0", "8">>
U_low == <<"l", "o", "w", " ", "s", "u", "p", "p", "l", "y">>
U_hi == <<"h", "i">>

UserTexts == {U_price, U_low, U_hi}

R_final == JsonTable[1].text
R_price == JsonTable[8].text

\* what the router's text generation answers when it is asked
RouterOuts ==
    {JsonTable[i].text : i \in DOMAIN JsonTable}
    \cup {<<>>,
          <<"price_estimates for Bishan">>,
          <<LB, "tool: final", RB>>,
          <<LB, "\"tool\": \"final\"">>,
          R_final \o <<" ">> \o R_price,
          <<"Sure:", " ">> \o R_price \o <<" ", "ok">>}

RouterRaises == Backend(TRUE, <<>>)
NotAsked == Backend(TRUE, <<"not asked">>)
WriterAnswers == Backend(FALSE, <<" ", "written answer", "\n">>)
WriterRaises == Backend(TRUE, <<>>)

AgentInput(router, writer, env) == [router |-> router, writer |-> writer, env |-> env]

\* the surroundings of a request; the router's backend matters only when the
\* deterministic router found nothing
AgentInputs(det) ==
    IF ~Falsy(det)
    THEN {AgentInput(NotAsked, WriterAnswers, Env("ok", {})),
          AgentInput(NotAsked, WriterRaises, Env("ok", {})),
          AgentInput(NotAsked, WriterAnswers, Env("fail1", {1}))}
    ELSE {AgentInput(Backend(FALSE, o), WriterAnswers, Env("ok", {})) : o \in RouterOuts}
         \cup {AgentInput(RouterRaises, WriterAnswers, Env("ok", {})),
               AgentInput(Backend(FALSE, R_price), WriterRaises, Env("ok", {})),
               AgentInput(Backend(FALSE, R_price), WriterAnswers, Env("fail1", {})),
               AgentInput(Backend(FALSE, R_price), WriterAnswers, Env("ok", {1, 2, 3, 4}))}

InitAgent ==
    /\ db = AgentDb
    /\ TOWNS \in Orders({Upper(t.name) : t \in db.town})
    /\ FLATS \in Orders({Upper(r.flat_type) : r \in db.resale_transaction})
    /\ CONF = DefaultCONF
    /\ central_model = "area"
    /\ cache = <<>>
    /\ tel = EmptyTel
    /\ last = NoCall
    /\ ncalls = 0

RunAgent ==
    /\ ncalls < MaxCalls
    /\ \E user_text \in UserTexts :
        \E x \in AgentInputs(_deterministic_route(TOWNS, FLATS, user_text)) :
          \E r \in {run_agent(cache, db, central_model, CONF, TOWNS, FLATS, user_text, x)} :
            /\ ncalls' = ncalls + 1
            /\ cache' = r.cache
            /\ tel' = TelAfter(r)
            /\ last' = [op |-> "run_agent", text |-> user_text, x |-> x,
                        res |-> r.res, trace |-> r.trace, routed |-> r.routed,
                        pre |-> [cache |-> cache]]
            /\ UNCHANGED <<db, TOWNS, FLATS, CONF, central_model>>

NextAgent == RunAgent

SpecAgent == InitAgent /\ [][NextAgent]_vars

-----------------------------------------------------------------------------
(***************************************************************************)
(* Properties of a request to the agent (SpecAgent).                       *)
(***************************************************************************)
IsAgentCall == last.op = "run_agent"

ToolEvents == SelectSeq(last.trace, LAMBDA e : e.ev = "tool")
WriterEvents == SelectSeq(last.trace, LAMBDA e : e.ev = "llm_write")
RouterGenerations == SelectSeq(last.trace, LAMBDA e : e.ev = "generate")

\* the router returned a route whose tool is the name of a string
RoutedName ==
    /\ IsAgentCall
    /\ ~last.routed.raised
    /\ ToolOf(last.routed.value).t = "str"

(* C1: whenever the router returns a route whose tool name is registered,  *)
(* whatever its args, and the writer's text generation answers, run_agent  *)
(* executes that tool exactly once with the route's args, invokes the      *)
(* writer exactly once, last, with the tagged result, and returns a        *)
(* mapping with exactly the keys route, data and answer.                   *)
C1_RegisteredToolRuns ==
    (/\ RoutedName
     /\ ToolOf(last.routed.value).v \in TOOL_REGISTRY
     /\ ~last.x.writer.raises)
    => /\ Len(ToolEvents) = 1
       /\ ToolEvents[1].tool = ToolOf(last.routed.value).v
       /\ ToolEvents[1].args = ArgsOf(last.routed.value)
       /\ ToolEvents[1].bound
       /\ ~last.res.raised
       /\ DOMAIN last.res.value = {"route", "data", "answer"}
       /\ "tool" \in DOMAIN last.res.value.data
       /\ Len(WriterEvents) = 1
       /\ last.trace[Len(last.trace)] = WriterEvents[1]
       /\ WriterEvents[1].data = [tool |-> ToolOf(last.routed.value).v,
                                  result |-> last.res.value.data]

(* C2: whenever the router returns a tool name X that is neither 'final'   *)
(* nor a key of TOOL_REGISTRY, run_agent invokes neither a tool nor the    *)
(* writer and returns the route, data = {error: "Unknown tool 'X'"} and    *)
(* the canned apology as the answer.                                       *)
C2_UnknownToolIsRefused ==
    (/\ RoutedName
     /\ ToolOf(last.routed.value).v \notin TOOL_REGISTRY \cup {FINAL})
    => /\ Len(ToolEvents) = 0
       /\ Len(WriterEvents) = 0
       /\ ~last.res.raised
       /\ DOMAIN last.res.value = {"route", "data", "answer"}
       /\ last.res.value.route = last.routed.value
       /\ DOMAIN last.res.value.data = {"error"}
       /\ last.res.value.data.error =
              <<"Unknown tool '">> \o ToolOf(last.routed.value).v \o <<"'">>
       /\ last.res.value.answer = PStr(<<"Sorry, I can't handle that request yet.">>)
       /\ cache = last.pre.cache

C2_Witness ==
    /\ RoutedName
    /\ ToolOf(last.routed.value).v = <<"weather">>
    /\ ~last.res.raised
    /\ last.res.value.data.error = <<"Unknown tool '", "weather", "'">>

(* C3: whenever the router returns tool 'final', run_agent invokes neither *)
(* a tool nor the writer and returns, as the answer, the answer text of    *)
(* the router's args.                                                      *)
C3_FinalAnswersDirectly ==
    (/\ RoutedName
     /\ ToolOf(last.routed.value).v = FINAL)
    => /\ Len(ToolEvents) = 0
       /\ Len(WriterEvents) = 0
       /\ ~last.res.raised
       /\ last.res.value.answer = DictGet(ArgsOf(last.routed.value), "answer", PStr(<<>>))

(* C4: llm_route never raises, and whenever the deterministic router finds *)
(* no match and the text generation fails (the backend raises, its output  *)
(* has no braces, or what the braces enclose is not valid JSON), llm_route *)
(* returns the default route: price_estimates for ANG MO KIO, 4 ROOM.      *)
C4_RouterNeverRaises ==
    IsAgentCall
    => /\ ~last.routed.raised
       /\ (/\ last.trace[1].det.t = "none"
           /\ \/ last.x.router.raises
              \/ ParseRoute(Strip(last.x.router.out)).raised)
          => /\ ToolOf(last.routed.value) = PStr(<<"price_estimates">>)
             /\ ArgsOf(last.routed.value) =
                    PDict([town |-> PStr(AMK), flat_type |-> PStr(R4)])

(* C5: in every request the deterministic router runs first and only      *)
(* once; the text-generation backend of the router is invoked at most      *)
(* once, and only when the deterministic router returned no match; when    *)
(* the deterministic router returns a route, llm_route returns that route  *)
(* unchanged.                                                              *)
C5_DeterministicFirst ==
    IsAgentCall
    => /\ last.trace[1] = DetEv(_deterministic_route(TOWNS, FLATS, last.text))
       /\ \A i \in 2..Len(last.trace) : last.trace[i].ev # "_deterministic_route"
       /\ Len(RouterGenerations) <= 1
       /\ Len(RouterGenerations) = 1
          => /\ last.trace[1].det.t = "none"
             /\ last.trace[2].ev = "generate"
       /\ last.trace[1].det.t # "none"
          => /\ Len(RouterGenerations) = 0
             /\ last.routed = Ret(last.trace[1].det)

C5_Witness ==
    /\ IsAgentCall
    /\ last.text = U_price
    /\ last.trace[1].det.t = "dict"
    /\ last.routed = Ret(last.trace[1].det)
    /\ ToolOf(last.routed.value) = PStr(PRICE_ESTIMATES)
    /\ Len(ToolEvents) = 1

\* the first balanced {...} of a text: from its first "{" to the first place
\* where as many "}" as "{" have been read; <<>> when there is none
BraceDepth(out, i, j) ==
    Cardinality({k \in i..j : out[k] = LB}) - Cardinality({k \in i..j : out[k] = RB})

BalancedEnd(out) ==
    IF /\ Index(out, LB) > 0
       /\ \E j \in Index(out, LB)..Len(out) : BraceDepth(out, Index(out, LB), j) = 0
    THEN CHOOSE j \in Index(out, LB)..Len(out) :
             /\ BraceDepth(out, Index(out, LB), j) = 0
             /\ \A k \in Index(out, LB)..(j - 1) : BraceDepth(out, Index(out, LB), k) # 0
    ELSE 0

FirstBalanced(out) ==
    IF BalancedEnd(out) = 0 THEN <<>> ELSE SubSeq(out, Index(out, LB), BalancedEnd(out))

(* C19: when the router's text generation returns a valid JSON object      *)
(* followed by further text, with or without braces in it, llm_route       *)
(* returns the first balanced {...} object of the output as the route.     *)
C19_FirstBalancedObject ==
    (/\ IsAgentCall
     /\ last.trace[1].det.t = "none"
     /\ ~last.x.router.raises
     /\ BalancedEnd(Strip(last.x.router.out)) > 0
     /\ BalancedEnd(Strip(last.x.router.out)) < Len(Strip(last.x.router.out))
     /\ ~JsonLoads(FirstBalanced(Strip(last.x.router.out))).raised)
    => last.routed = Ret(JsonLoads(FirstBalanced(Strip(last.x.router.out))).value)


-----------------------------------------------------------------------------
(***************************************************************************)
(* Calls of the deterministic router.  The vocabulary is read from storage *)
(* once, when the module is imported; storage may change afterwards.       *)
(***************************************************************************)
RouterTexts ==
    {
      <<"S", "h", "o", "w", " ", "p", "r", "i", "c", "e", "s", " ", "f", "o", "r", " ", "4", " ", "R", "O", "O", "M", " ", "i", "n", " ", "A", "n", "g", " ", "M", "o", " ", "K", "i", "o", " ", "f", "o", "r", " ", "2", "0", "2", "5", "-", "0", "8">>,
      <<"b", "i", "s", "h", "a", "n">>,
      <<"i", "n", " ", "2", "0", "2", "5", "/", "8">>,
      <<"b", "i", "s", "h", "n">>,
      <<"l", "o", "w", " ", "s", "u", "p", "p", "l", "y">>,
      <<"f", "e", "w", " ", "b", "t", "o", " ", "4", " ", "r", "o", "o", "m">>,
      <<"L", "O", "W", " ", " ", "S", "U", "P", "P", "L", "Y", " ", "b", "i", "s", "h", "a", "n", " ", "2", "0", "2", "5", "-", "0", "8">>,
      <<"b", "t", "o", " ", "f", "e", "w">>,
      <<>>,
      <<"?", "?">>,
      <<"h", "e", "l", "l", "o">>,
      <<"2", "0", "2", "5", "-", "1", "3">>,
      <<"2", "0", "2", "5", "-", "0", "0", " ", "2", "0", "2", "5", "-", "0", "8">>,
      <<"1", "9", "9", "9", "-", "0", "8">>
    }

RouterDbs == {AgentDb, DbOf({})}

InitRouter ==
    /\ db = AgentDb
    /\ TOWNS \in Orders({Upper(t.name) : t \in db.town})
    /\ FLATS \in Orders({Upper(r.flat_type) : r \in db.resale_transaction})
    /\ CONF = DefaultCONF
    /\ central_model = "area"
    /\ cache = <<>>
    /\ tel = EmptyTel
    /\ last = NoCall
    /\ ncalls = 0

\* the routes returned so far, by utterance
Earlier == IF last = NoCall THEN <<>> ELSE last.earlier @@ (last.text :> last.route)

\* _deterministic_route(user_text); month is what line 40 found
CallDeterministicRoute ==
    /\ ncalls < MaxCalls
    /\ \E user_text \in RouterTexts :
         /\ last' = [op |-> "_deterministic_route", text |-> user_text,
                     month |-> _guess_month(user_text),
                     route |-> _deterministic_route(TOWNS, FLATS, user_text),
                     earlier |-> Earlier]
         /\ ncalls' = ncalls + 1
         /\ UNCHANGED <<db, TOWNS, FLATS, CONF, central_model, cache, tel>>

\* storage is replaced (a test swaps the database, new data is loaded)
StorageChanges ==
    /\ last # NoCall
    /\ \E d \in RouterDbs \ {db} : db' = d
    /\ UNCHANGED <<TOWNS, FLATS, CONF, central_model, cache, tel, last, ncalls>>

NextRouter == CallDeterministicRoute \/ StorageChanges

SpecRouter == InitRouter /\ [][NextRouter]_vars

-----------------------------------------------------------------------------
(***************************************************************************)
(* Properties of the deterministic router (SpecRouter).                    *)
(***************************************************************************)
IsRouteCall == last.op = "_deterministic_route"

\* what the utterance of the last call matches in the loaded vocabulary
TownMatched == _best_match(TOWNS, last.text)
FlatMatched == _best_match(FLATS, last.text)

(* C11: whenever no low-supply trigger matches the utterance and a         *)
(* vocabulary town, a vocabulary flat type or a month token is found, the  *)
(* route is price_estimates, its town is the matched town, or ANG MO KIO   *)
(* when none matched, its flat_type is the matched label, or 4 ROOM when   *)
(* none matched, and its args hold the key month exactly when a month was  *)
(* detected (and then hold that month).                                    *)
C11_PriceRoute ==
    (/\ IsRouteCall
     /\ ~LowSupplyIntent(last.text)
     /\ (TownMatched # None \/ FlatMatched # None \/ last.month # None))
    => /\ last.route.t = "dict"
       /\ DOMAIN last.route.v = {"tool", "args"}
       /\ last.route.v.tool = PStr(<<"price_estimates">>)
       /\ last.route.v.args.t = "dict"
       /\ {"town", "flat_type"} \subseteq DOMAIN last.route.v.args.v
       /\ DOMAIN last.route.v.args.v \subseteq {"town", "flat_type", "month"}
       /\ last.route.v.args.v.town = PStr(IF TownMatched # None THEN TownMatched ELSE AMK)
       /\ last.route.v.args.v.flat_type = PStr(IF FlatMatched # None THEN FlatMatched ELSE R4)
       /\ ("month" \in DOMAIN last.route.v.args.v) <=> (last.month # None)
       /\ last.month # None => last.route.v.args.v.month = PStr(last.month)

C11_Witness ==
    /\ IsRouteCall
    /\ Len(last.text) = 48
    /\ TownMatched = AMK
    /\ last.route.v.tool = PStr(<<"price_estimates">>)
    /\ last.route.v.args.v =
           [town |-> PStr(AMK), flat_type |-> PStr(R4),
            month |-> PStr(<<"2", "0", "2", "5", "-", "0", "8">>)]

(* C12: whenever a low-supply trigger matches the utterance, whatever town *)
(* or month it also holds, the route is low_supply with last_n_years = 10, *)
(* and its flat_type argument, when present, is a string: the matched      *)
(* vocabulary label, or the empty string when no label is matched.         *)
C12_LowSupplyRoute ==
    (IsRouteCall /\ LowSupplyIntent(last.text))
    => /\ last.route.t = "dict"
       /\ last.route.v.tool = PStr(<<"low_supply">>)
       /\ last.route.v.args.t = "dict"
       /\ "last_n_years" \in DOMAIN last.route.v.args.v
       /\ last.route.v.args.v.last_n_years = PInt(10)
       /\ "flat_type" \in DOMAIN last.route.v.args.v
          => /\ last.route.v.args.v.flat_type.t = "str"
             /\ last.route.v.args.v.flat_type.v =
                    (IF FlatMatched # None THEN FlatMatched ELSE <<>>)

TokenStart(text, p) ==
    IF \A k \in 0..3 : IsDigit(CharAt(text, p + k))
    THEN IF CharAt(text, p + 4) \in {"-", "/", " "} /\ IsDigit(CharAt(text, p + 5))
         THEN p + 5
         ELSE IF IsDigit(CharAt(text, p + 4)) THEN p + 4 ELSE 0
    ELSE 0

TokenMonth(text, p) == MonthNumberAt(text, TokenStart(text, p))

IsMonthToken(text, p) == TokenStart(text, p) > 0 /\ TokenMonth(text, p) \in 1..12

TokenText(text, p) == MonthText(SubSeq(text, p, p + 3), TokenMonth(text, p))

HasMonthToken(text) == \E p \in 1..Len(text) : IsMonthToken(text, p)

\* a vocabulary name found in the utterance: some letters or digits of the
\* utterance contain the name or are contained in it, or the name is close
\* to the utterance
NameFound(candidates, text) ==
    \E i \in 1..Len(candidates) :
        \/ /\ _norm(text) # <<>>
           /\ \/ Contains(_norm(candidates[i]), _norm(text))
              \/ Contains(_norm(text), _norm(candidates[i]))
        \/ IsClose(candidates[i], Upper(text))

(* C18: an utterance (the empty one and one without letters or digits      *)
(* included) in which no vocabulary town, no vocabulary flat type and no   *)
(* month token is found, and which has no low-supply trigger, gets no      *)
(* route from _deterministic_route.                                        *)
C18_NothingFoundNoMatch ==
    (/\ IsRouteCall
     /\ ~NameFound(TOWNS, last.text)
     /\ ~NameFound(FLATS, last.text)
     /\ ~HasMonthToken(last.text)
     /\ ~LowSupplyIntent(last.text))
    => last.route = PNone

(* C20 as stated: _guess_month gives a month exactly when the utterance    *)
(* holds a year-month token with a month in 1..12, and then that token as  *)
(* YYYY-MM.                                                                *)
C20_MonthIffToken ==
    IsRouteCall
    => IF HasMonthToken(last.text)
       THEN \E p \in 1..Len(last.text) :
               IsMonthToken(last.text, p) /\ last.month = TokenText(last.text, p)
       ELSE last.month = None

\* the tokens _guess_month looks for: those of the years 2000 to 2099
IsToken20(text, p) ==
    TokenStart(text, p) > 0 /\ CharAt(text, p) = "2" /\ CharAt(text, p + 1) = "0"

LeftmostToken20(text) ==
    CHOOSE p \in 1..Len(text) :
        IsToken20(text, p) /\ \A q \in 1..(p - 1) : ~IsToken20(text, q)

(* C20 (amended): _guess_month looks at the leftmost token of a year 2000  *)
(* to 2099 only: the month is that token as YYYY-MM when its month is in   *)
(* 1..12, and absent when it is not or when there is no such token.        *)
C20_LeftmostMonthToken ==
    IsRouteCall
    => IF /\ \E p \in 1..Len(last.text) : IsToken20(last.text, p)
          /\ IsMonthToken(last.text, LeftmostToken20(last.text))
       THEN last.month = TokenText(last.text, LeftmostToken20(last.text))
       ELSE last.month = None

C20_Witness ==
    /\ IsRouteCall
    /\ IsToken20(last.text, 4)
    /\ TokenMonth(last.text, 4) = 8
    /\ Len(last.text) = 9
    /\ last.month = <<"2", "0", "2", "5", "-", "0", "8">>

-----------------------------------------------------------------------------
(***************************************************************************)
(* Calls of t_low_supply on storage with several towns and flat types.     *)
(***************************************************************************)
\* rows of resale_transaction: id, month, town_id, flat_type
LowPool ==
    { Txn(21, Ym(2025, 8),  1, R3,    <<IMPROVED>>, 4, 6, 67, <<1982>>, <<400>>, <<350>>),
      Txn(22, Ym(2025, 8),  1, R4,    <<IMPROVED>>, 4, 6, 90, <<1982>>, <<400>>, <<480>>),
      Txn(23, Ym(2025, 7),  1, R4,    <<IMPROVED>>, 4, 6, 90, <<1982>>, <<400>>, <<470>>),
      Txn(24, Ym(2025, 8),  2, R4,    <<IMPROVED>>, 4, 6, 95, <<1987>>, <<360>>, <<650>>),
      Txn(25, Ym(2020, 1),  2, R3,    <<NEWGEN>>,   4, 6, 67, <<1985>>, <<700>>, <<300>>),
      Txn(26, Ym(2025, 3),  2, r4_lc, <<IMPROVED>>, 4, 6, 95, <<1987>>, <<360>>, <<640>>),
      Txn(27, Ym(2024, 11), 1, R4,    <<IMPROVED>>, 4, 6, 90, <<1982>>, <<400>>, <<460>>),
      Txn(28, Ym(2025, 6),  2, R4,    <<IMPROVED>>, 4, 6, 95, <<1987>>, <<360>>, <<655>>),
      Txn(29, Ym(2024, 10), 2, R3,    <<NEWGEN>>,   4, 6, 67, <<1985>>, <<700>>, <<310>>) }

LowStorages ==
    {[town |-> TownTable, resale_transaction |-> {r \in LowPool : r.id \in ids}] :
        ids \in {{21, 22, 23, 24, 28}, {22, 25, 27, 29}, {24, 26}, {}}}

LowCall(n, ft, k, env) ==
    [args |-> [last_n_years |-> n, flat_type |-> ft, top_k |-> k], env |-> env]

\* the calls made: arguments, and what storage and telemetry do meanwhile
LowCalls ==
    {LowCall(<<2>>, ft, <<k>>, Env("ok", {})) :
        ft \in {None, R4, r4_lc, R3}, k \in {1, 2, 5}}
    \cup {LowCall(<<10>>, None, <<8>>, env) :
             env \in {Env("ok", {}), Env("ok", {1}), Env("fail1", {}), Env("fail1", {1})}}
    \cup {LowCall(<<2>>,  <<>>, <<1>>,  Env("ok", {})),
          LowCall(<<2>>,  None, <<0>>,  Env("ok", {})),
          LowCall(<<2>>,  None, <<-1>>, Env("ok", {})),
          LowCall(<<10>>, R3,   <<1>>,  Env("ok", {})),
          LowCall(NULL,   None, <<8>>,  Env("ok", {})),
          LowCall(<<2>>,  R4,   NULL,   Env("ok", {1}))}

InitLowSupply ==
    /\ db \in LowStorages
    /\ TOWNS = <<>>
    /\ FLATS = <<>>
    /\ CONF = DefaultCONF
    /\ central_model = "area"
    /\ cache = <<>>
    /\ tel = EmptyTel
    /\ last = NoCall
    /\ ncalls = 0

RankLowSupply ==
    /\ ncalls < MaxCalls
    /\ \E c \in LowCalls :
        \E r \in {t_low_supply(db, c.args, c.env)} :
            /\ ncalls' = ncalls + 1
            /\ tel' = TelAfter(r)
            /\ last' = [op |-> "t_low_supply", args |-> c.args, env |-> c.env,
                        res |-> r.res, trace |-> r.trace,
                        pre |-> [cache |-> cache]]
            /\ UNCHANGED <<db, TOWNS, FLATS, CONF, central_model, cache>>

SpecLowSupply == InitLowSupply /\ [][RankLowSupply]_vars

-----------------------------------------------------------------------------
(***************************************************************************)
(* Properties of t_low_supply (SpecLowSupply).                             *)
(***************************************************************************)
\* the last call was t_low_supply and it returned a ranking
LowRanked ==
    /\ last.op = "t_low_supply"
    /\ ~last.res.raised
    /\ "items" \in DOMAIN last.res.value

LowFiltered == last.args.flat_type # None /\ last.args.flat_type # <<>>

\* the (town, flat_type) pair of a row, and the rows at or after the cutoff
\* that the call's filter, if any, lets through
PairOfRow(r) == <<(CHOOSE t \in db.town : t.id = r.town_id).name, r.flat_type>>

QualifyingRows ==
    {r \in db.resale_transaction :
        /\ r.month >= last.env.today - 12 * last.args.last_n_years[1]
        /\ LowFiltered => Upper(r.flat_type) = Upper(last.args.flat_type)}

QualifyingPairs == {PairOfRow(r) : r \in QualifyingRows}

PairCount(p) == Cardinality({r \in QualifyingRows : PairOfRow(r) = p})

ItemPairs ==
    {<<last.res.value.items[i].town, last.res.value.items[i].flat_type>> :
        i \in 1..Len(last.res.value.items)}

(* C14: the items t_low_supply returns are distinct qualifying pairs with  *)
(* their counts, in non-decreasing order of n; no qualifying pair left out *)
(* has a smaller n than a pair included; and for top_k >= 1 the number of  *)
(* items is min(top_k, number of qualifying pairs).                        *)
C14_RankedByCount ==
    LowRanked
    => /\ \A i, j \in 1..Len(last.res.value.items) :
              i < j => last.res.value.items[i].n <= last.res.value.items[j].n
       /\ \A i \in 1..Len(last.res.value.items) :
              /\ <<last.res.value.items[i].town, last.res.value.items[i].flat_type>>
                     \in QualifyingPairs
              /\ last.res.value.items[i].n =
                     PairCount(<<last.res.value.items[i].town,
                                 last.res.value.items[i].flat_type>>)
       /\ Cardinality(ItemPairs) = Len(last.res.value.items)
       /\ \A p \in QualifyingPairs \ ItemPairs :
              \A i \in 1..Len(last.res.value.items) :
                  last.res.value.items[i].n <= PairCount(p)
       /\ last.args.top_k[1] >= 1
          => Len(last.res.value.items) =
                 (IF last.args.top_k[1] <= Cardinality(QualifyingPairs)
                  THEN last.args.top_k[1] ELSE Cardinality(QualifyingPairs))

C14_Witness ==
    /\ LowRanked
    /\ ~LowFiltered
    /\ last.args.top_k = <<1>>
    /\ Cardinality(QualifyingPairs) = 3
    /\ Len(last.res.value.items) = 1
    /\ last.res.value.items[1].n = 1
    /\ \E p \in QualifyingPairs : PairCount(p) = 2

\* the pairs with a row at or after the cutoff, whatever their flat type
PairsAfterCutoff ==
    {PairOfRow(r) : r \in {q \in db.resale_transaction :
        q.month >= last.env.today - 12 * last.args.last_n_years[1]}}

(* C15: when t_low_supply is given a flat_type filter, every item's        *)
(* flat_type equals the filter ignoring case, and a matching pair is left  *)
(* out only when top_k matching pairs with counts no higher are returned   *)
(* (the filter is applied before the truncation); without a filter the     *)
(* same holds of the pairs of every flat type.                             *)
C15_FilterBeforeTruncation ==
    (LowRanked /\ last.args.top_k[1] >= 0)
    => /\ LowFiltered
          => \A i \in 1..Len(last.res.value.items) :
                 Upper(last.res.value.items[i].flat_type) = Upper(last.args.flat_type)
       /\ \A p \in PairsAfterCutoff :
              (LowFiltered => Upper(p[2]) = Upper(last.args.flat_type))
              => \/ p \in ItemPairs
                 \/ /\ Len(last.res.value.items) = last.args.top_k[1]
                    /\ \A i \in 1..Len(last.res.value.items) :
                           last.res.value.items[i].n <= PairCount(p)

C15_Witness ==
    /\ LowRanked
    /\ last.args.flat_type = r4_lc
    /\ last.args.top_k = <<1>>
    /\ \E p \in PairsAfterCutoff : p[2] = R3 /\ PairCount(p) = 0
    /\ Cardinality(QualifyingPairs) = 2
    /\ Len(last.res.value.items) = 1
    /\ last.res.value.items[1].flat_type = R4
    /\ last.res.value.items[1].n = 2

(* C16: t_low_supply never raises: a failure of storage access or of the   *)
(* ranking computation (arguments it cannot compute with) comes back as    *)
(* the payload {tool: low_supply, error: message}, also when the telemetry *)
(* write of the failure fails too.                                         *)
C16_LowSupplyReportsErrors ==
    last.op = "t_low_supply"
    => /\ ~last.res.raised
       /\ last.res.value.tool = "low_supply"
       /\ (\/ last.env.storage # "ok"
           \/ last.args.last_n_years = NULL
           \/ last.args.top_k = NULL)
          => /\ DOMAIN last.res.value = {"tool", "error"}
             /\ Len(last.res.value.error) > 0

C16_Witness ==
    /\ last.op = "t_low_supply"
    /\ last.env.storage = "fail1"
    /\ last.env.telfail = {1}
    /\ ~last.res.raised
    /\ DOMAIN last.res.value = {"tool", "error"}
    /\ tel = EmptyTel

-----------------------------------------------------------------------------
(***************************************************************************)
(* Calls of predict with a single record and with lists of records.        *)
(***************************************************************************)
FeatureRecord(town, lo, hi, area) ==
    [month |-> M2025_08, town |-> town, flat_type |-> R4, flat_model |-> IMPROVED,
     storey_low |-> lo, storey_high |-> hi, floor_area_sqm |-> RatInt(area),
     lease_commence_year |-> 2000, remaining_lease_months |-> 240]

Rec90 == FeatureRecord(AMK, 4, 6, 90)
Rec80 == FeatureRecord(BISHAN, 1, 3, 80)
Rec100 == FeatureRecord(BISHAN, 10, 12, 100)

PredictInputs ==
    <<[t |-> "dict", v |-> Rec90],
      [t |-> "dict", v |-> Rec80],
      [t |-> "list", v |-> <<Rec90>>],
      [t |-> "list", v |-> <<Rec80>>],
      [t |-> "list", v |-> <<Rec90, Rec80>>],
      [t |-> "list", v |-> <<Rec100, Rec90, Rec80, Rec90>>],
      [t |-> "list", v |-> <<>>]>>

\* finance configurations read from the environment at import
Confs ==
    {DefaultCONF,
     [discount |-> Rat(0, 1), ltv |-> Rat(3, 4), interest_pa |-> Rat(0, 1),
      tenure_years |-> 30, msr |-> Rat(1, 4)]}

InitPredict ==
    /\ db = DbOf({})
    /\ TOWNS = <<>>
    /\ FLATS = <<>>
    /\ CONF \in Confs
    /\ central_model \in Models
    /\ cache = <<>>
    /\ tel = EmptyTel
    /\ last = NoCall
    /\ ncalls = 0

\* predict(records); before: the call made just before this one
CallPredict ==
    /\ ncalls < MaxCalls
    /\ \E i \in 1..Len(PredictInputs) :
         /\ last' = [op |-> "predict", records |-> PredictInputs[i],
                     res |-> predict(central_model, CONF, PredictInputs[i]),
                     before |-> IF last = NoCall THEN NoCall
                                ELSE [op |-> "predict", records |-> last.records,
                                      res |-> last.res]]
         /\ ncalls' = ncalls + 1
         /\ UNCHANGED <<db, TOWNS, FLATS, CONF, central_model, cache, tel>>

SpecPredict == InitPredict /\ [][CallPredict]_vars

(* C17: with a model loaded, predict returns one output per input record,  *)
(* in input order, each with bto_proxy = resale_pred * (1 - discount); and *)
(* predict(record)[0] equals predict([record])[0].                         *)
C17_PredictPerRecord ==
    (last.op = "predict" /\ central_model # "missing" /\ RecordList(last.records) # <<>>)
    => /\ ~last.res.raised
       /\ Len(last.res.value) = Len(RecordList(last.records))
       /\ \A i \in 1..Len(last.res.value) :
             /\ last.res.value[i].resale_pred =
                    ModelPredict(central_model, RecordList(last.records)[i])
             /\ last.res.value[i].bto_proxy =
                    RatMul(last.res.value[i].resale_pred, RatSub(One, CONF.discount))
       /\ (/\ last.before # NoCall
           /\ last.records.t = "dict"
           /\ last.before.records.t = "list"
           /\ last.before.records.v = <<last.records.v>>)
          => /\ ~last.before.res.raised
             /\ last.res.value[1] = last.before.res.value[1]

C17_Witness ==
    /\ last.op = "predict"
    /\ central_model = "area"
    /\ last.records.t = "dict"
    /\ last.records.v = Rec90
    /\ last.before # NoCall
    /\ last.before.records.t = "list"
    /\ last.before.records.v = <<Rec90>>
    /\ ~last.res.raised
    /\ last.res.value[1] = last.before.res.value[1]
    /\ last.res.value[1].resale_pred = RatInt(450)
    /\ last.res.value[1].bto_proxy = RatInt(360)

-----------------------------------------------------------------------------
(***************************************************************************)
(* The premium cache over the life of a process: calls of _floor_premiums  *)
(* for many keys, cache_clear, and storage replaced under it.  known is    *)
(* what has been computed since the cache was last cleared.                *)
(***************************************************************************)
Ones == [low |-> One, mid |-> One, high |-> One]

\* the i-th of the other towns asked about; storage holds nothing for them
OtherTown(i) ==
    <<"T", Digit(i \div 1000), Digit((i \div 100) % 10), Digit((i \div 10) % 10),
      Digit(i % 10)>>

\* the cache after _floor_premiums(AMK, R4) on storage d followed by calls
\* for n other towns
CacheAfter(d, n) ==
    <<[key |-> CacheKey(AMK, R4),
       value |-> FloorPremiumsBody(d, AMK, R4, TRUE).res.value]>>
    \o [i \in 1..n |-> [key |-> CacheKey(OtherTown(i), R4), value |-> Ones]]

CacheTowns == {AMK, amk_lc, BISHAN}
CacheDbs == {DbOf({1, 2, 3}), DbOf({2, 4, 8})}

InitCache ==
    /\ db = DbOf({1, 2, 3})
    /\ TOWNS = <<>>
    /\ FLATS = <<>>
    /\ CONF = DefaultCONF
    /\ central_model = "missing"
    /\ cache \in {<<>>, CacheAfter(db, 1), CacheAfter(db, maxsize - 1)}
    /\ tel = EmptyTel
    /\ last = [op |-> "none", known |-> cache]
    /\ ncalls = 0

KnownAfter(known, k, res) ==
    IF CacheHas(known, k) \/ res.raised THEN known
    ELSE Append(known, [key |-> k, value |-> res.value])

CallCachedPremiums ==
    /\ ncalls < MaxCalls
    /\ \E town \in CacheTowns, storage_ok \in BOOLEAN :
        \E r \in {_floor_premiums(cache, db, town, R4, storage_ok)} :
            /\ ncalls' = ncalls + 1
            /\ cache' = r.cache
            /\ last' = [op |-> "_floor_premiums", town |-> town, flat_type |-> R4,
                        res |-> r.res, trace |-> r.trace, before |-> last.known,
                        known |-> KnownAfter(last.known, CacheKey(town, R4), r.res)]
            /\ UNCHANGED <<db, TOWNS, FLATS, CONF, central_model, tel>>

ClearCache ==
    /\ last.op # "cache_clear"
    /\ cache' = <<>>
    /\ last' = [op |-> "cache_clear", known |-> <<>>]
    /\ UNCHANGED <<db, TOWNS, FLATS, CONF, central_model, tel, ncalls>>

StorageReplaced ==
    /\ last.op # "storage_replaced"
    /\ \E d \in CacheDbs \ {db} :
        /\ db' = d
        /\ last' = [op |-> "storage_replaced", known |-> last.known]
        /\ UNCHANGED <<TOWNS, FLATS, CONF, central_model, cache, tel, ncalls>>

NextCache == CallCachedPremiums \/ ClearCache \/ StorageReplaced

SpecCache == InitCache /\ [][NextCache]_vars

(* C21: once _floor_premiums has computed a result for a key, every later  *)
(* call with that key returns the stored result without querying storage,  *)
(* however many other keys were asked for in between and whatever happened *)
(* to storage, until cache_clear is called.                                *)
C21_CachedForProcessLifetime ==
    (/\ last.op = "_floor_premiums"
     /\ CacheHas(last.before, CacheKey(last.town, last.flat_type)))
    => /\ last.trace = <<>>
       /\ last.res = Ret(CacheGet(last.before, CacheKey(last.town, last.flat_type)))

-----------------------------------------------------------------------------
(***************************************************************************)
(* The floor premiums while transactions are added to, removed from and    *)
(* changed in storage between calls.                                       *)
(***************************************************************************)
\* storage d with transaction 5 (2023-07) recorded with another price and storey
OlderChanged(d) ==
    [d EXCEPT !.resale_transaction =
        {IF r.id = 5
         THEN [r EXCEPT !.resale_price = <<100>>, !.storey_low = 1, !.storey_high = 2]
         ELSE r : r \in @}]

WindowDbs ==
    {DbOf(S) : S \in {{1, 2, 3}, {1, 2, 3, 5}, {2, 4}, {2, 4, 5}, {2, 5}, {2}, {5}, {4, 5}}}
    \cup {OlderChanged(DbOf({1, 2, 3, 5})), OlderChanged(DbOf({2, 5}))}

InitWindow ==
    /\ db \in WindowDbs
    /\ TOWNS = <<>>
    /\ FLATS = <<>>
    /\ CONF = DefaultCONF
    /\ central_model = "missing"
    /\ cache = <<>>
    /\ tel = EmptyTel
    /\ last = NoCall
    /\ ncalls = 0

\* the data loader rewrites storage after a call
StorageEdited ==
    /\ last.op = "_floor_premiums"
    /\ \E d \in WindowDbs \ {db} :
        /\ db' = d
        /\ last' = [op |-> "storage_edited", from |-> db]
        /\ UNCHANGED <<TOWNS, FLATS, CONF, central_model, cache, tel, ncalls>>

NextWindow == CallFloorPremiums \/ StorageEdited

SpecWindow == InitWindow /\ [][NextWindow]_vars

\* the priced transactions of the segment of cache key k in storage d, and
\* those of them in the 24 months up to the segment's latest month
SegmentOf(d, k) ==
    {r \in d.resale_transaction :
        /\ r.resale_price # NULL
        /\ r.flat_type = Upper(k[2])
        /\ \E t \in d.town : t.id = r.town_id /\ t.name = Upper(k[1])}

WindowOf(d, k) ==
    {r \in SegmentOf(d, k) : \A q \in SegmentOf(d, k) : r.month >= q.month - 24}

Recomputed(d, k) == FloorPremiumsBody(d, k[1], k[2], TRUE).res.value

(* C25: the multipliers of _floor_premiums depend only on the segment's    *)
(* transactions in the 24 months up to the segment's own latest month:     *)
(* when storage is edited so that those stay the same (older transactions  *)
(* added, removed or changed), what _floor_premiums returned for the       *)
(* segment before the edit is what it computes after it.  The wall clock   *)
(* is not read.                                                            *)
C25_OnlyWindowMatters ==
    last.op = "storage_edited"
    => \A i \in DOMAIN cache :
          (/\ WindowOf(db, cache[i].key) = WindowOf(last.from, cache[i].key)
           /\ cache[i].value = Recomputed(last.from, cache[i].key))
          => Recomputed(db, cache[i].key) = cache[i].value

C25_Witness ==
    /\ last.op = "storage_edited"
    /\ Len(cache) = 1
    /\ cache[1].key = CacheKey(AMK, R4)
    /\ cache[1].value # Ones
    /\ WindowOf(db, cache[1].key) = WindowOf(last.from, cache[1].key)
    /\ SegmentOf(db, cache[1].key) # SegmentOf(last.from, cache[1].key)
    /\ \E r \in SegmentOf(db, cache[1].key) : r.id = 5 /\ r.resale_price = <<100>>
    /\ cache[1].value = Recomputed(last.from, cache[1].key)
    /\ cache[1].value = Recomputed(db, cache[1].key)

-----------------------------------------------------------------------------
(***************************************************************************)
(* monitoring/telemetry.py: the decorator timed.                           *)
(***************************************************************************)
TelemetryError == Raise("OperationalError", <<"telemetry store failed">>)

LogToolEv(tool, success, ok) ==
    [ev |-> "log_tool", tool |-> tool, success |-> success, ok |-> ok]

TimedOut(res, trace) ==
    [res |-> res, trace |-> trace, npred |-> 0,
     ntool |-> Len(SelectSeq(trace, LAMBDA e : e.ev = "log_tool" /\ e.ok))]

\* wrap(*a, **kw) of timed(tool_name, args_snapshot)(fn); fn: what the
\* wrapped function does in this call (Ret or Raise).  log_tool of line 55
\* is inside the try, so its exception is handled by the except of line 57,
\* which logs again and re-raises the exception it caught.
timed(tool_name, fn, telfail) ==
    IF fn.raised
    THEN TimedOut(IF LogOk(1, telfail) THEN fn ELSE TelemetryError,
                  <<Ev("fn"), LogToolEv(tool_name, FALSE, LogOk(1, telfail))>>)
    ELSE IF LogOk(1, telfail)
    THEN TimedOut(fn, <<Ev("fn"), LogToolEv(tool_name, TRUE, TRUE)>>)
    ELSE TimedOut(TelemetryError,
                  <<Ev("fn"), LogToolEv(tool_name, TRUE, FALSE),
                    LogToolEv(tool_name, FALSE, LogOk(2, telfail))>>)

WrappedOutcomes ==
    <<Ret(<<"out">>), Ret(None), Ret(<<>>),
      Raise("ValueError", <<"No data">>), Raise("KeyError", <<"town">>)>>

TimedTelFails == {{}, {1}, {2}, {1, 2}}

InitTimed ==
    /\ db = DbOf({})
    /\ TOWNS = <<>>
    /\ FLATS = <<>>
    /\ CONF = DefaultCONF
    /\ central_model = "missing"
    /\ cache = <<>>
    /\ tel = EmptyTel
    /\ last = NoCall
    /\ ncalls = 0

CallTimed ==
    /\ ncalls < MaxCalls
    /\ \E tool_name \in TOOL_REGISTRY, i \in DOMAIN WrappedOutcomes, telfail \in TimedTelFails :
        \E r \in {timed(tool_name, WrappedOutcomes[i], telfail)} :
            /\ ncalls' = ncalls + 1
            /\ tel' = TelAfter(r)
            /\ last' = [op |-> "timed", tool |-> tool_name, fn |-> WrappedOutcomes[i],
                        telfail |-> telfail, res |-> r.res, trace |-> r.trace]
            /\ UNCHANGED <<db, TOWNS, FLATS, CONF, central_model, cache>>

SpecTimed == InitTimed /\ [][CallTimed]_vars

(* C26: a function wrapped by timed returns the wrapped function's result  *)
(* whenever that function returns normally, and makes exactly one log_tool *)
(* attempt per call, with success true on a normal return and false when   *)
(* the function raised, in which case the original exception is re-raised; *)
(* all of it also when log_tool itself fails.                              *)
C26_TimedIsTransparent ==
    last.op = "timed"
    => /\ last.res = last.fn
       /\ Len(LogToolEvents) = 1
       /\ LogToolEvents[1].success = ~last.fn.raised

-----------------------------------------------------------------------------
(***************************************************************************)
(* A caller that keeps a t_price_estimates response and writes into it.    *)
(* response["finance"] is the FINCONF mapping itself (line 194) and        *)
(* response["premiums"] is the mapping held by the lru_cache (line 195):   *)
(* writing into them writes into CONF and into the cache entry.            *)
(***************************************************************************)
ResponseArgs ==
    {[town |-> AMK,    flat_type |-> R4,    month |-> None,     bands |-> DefaultBands],
     [town |-> amk_lc, flat_type |-> r4_lc, month |-> M2025_08, bands |-> DefaultBands],
     [town |-> AMK,    flat_type |-> R4,    month |-> M2025_08,
      bands |-> Bands(<<"low">>)]}

InitResponse ==
    /\ db \in {DbOf({1, 2, 3}), DbOf({2, 4, 8})}
    /\ TOWNS = <<>>
    /\ FLATS = <<>>
    /\ CONF = DefaultCONF
    /\ central_model = "area"
    /\ cache = <<>>
    /\ tel = EmptyTel
    /\ last = NoCall
    /\ ncalls = 0

\* the earlier call a later one is compared with
Before == IF last = NoCall THEN NoCall
          ELSE [op |-> "t_price_estimates", args |-> last.args, res |-> last.res]

CallPriceAgain ==
    /\ ncalls < MaxCalls
    /\ \E args \in ResponseArgs :
        \E r \in {t_price_estimates(cache, db, central_model, CONF, args, Env("ok", {}))} :
            /\ ncalls' = ncalls + 1
            /\ cache' = r.cache
            /\ tel' = TelAfter(r)
            /\ last' = [op |-> "t_price_estimates", args |-> args, res |-> r.res,
                        trace |-> r.trace, written |-> "nothing", before |-> Before]
            /\ UNCHANGED <<db, TOWNS, FLATS, CONF, central_model>>

HoldsResponse ==
    /\ last.op = "t_price_estimates"
    /\ ~last.res.raised
    /\ "error" \notin DOMAIN last.res.value
    /\ last.written = "nothing"

\* response["finance"]["discount"] = x
CallerWritesFinance ==
    /\ HoldsResponse
    /\ \E x \in {Rat(0, 1), Rat(1, 2)} :
        /\ CONF' = [CONF EXCEPT !.discount = x]
        /\ last' = [last EXCEPT !.written = "finance"]
        /\ UNCHANGED <<db, TOWNS, FLATS, central_model, cache, tel, ncalls>>

\* response["premiums"]["low"] = x
CallerWritesPremiums ==
    /\ HoldsResponse
    /\ \E x \in {Rat(2, 1), Rat(1, 2)} :
        /\ cache' = [i \in DOMAIN cache |->
                        IF cache[i].key = CacheKey(last.args.town, last.args.flat_type)
                        THEN [cache[i] EXCEPT !.value.low = x]
                        ELSE cache[i]]
        /\ last' = [last EXCEPT !.written = "premiums"]
        /\ UNCHANGED <<db, TOWNS, FLATS, CONF, central_model, tel, ncalls>>

NextResponse == CallPriceAgain \/ CallerWritesFinance \/ CallerWritesPremiums

SpecResponse == InitResponse /\ [][NextResponse]_vars

(* C27: writing into the 'finance' or 'premiums' mapping of a response     *)
(* changes nothing for later calls: a later t_price_estimates call with    *)
(* the same inputs on unchanged storage returns what the earlier call      *)
(* returned.                                                               *)
C27_ResponsesAreDetached ==
    (/\ last.op = "t_price_estimates"
     /\ last.before # NoCall
     /\ last.before.args = last.args)
    => last.res = last.before.res

=============================================================================
